---- MODULE Spec2Model ----
(***************************************************************************)
(* Model of the asset loader of SceneManager (dist/core/SceneManager.js)   *)
(* and of the two-tier persistent cache it uses (src/core/CacheManager.ts).*)
(*                                                                         *)
(* Time is counted in clock units; DayLen units make one day.  The code    *)
(* computes ageInDays = (Date.now() - timestamp) / msPerDay and compares   *)
(* it with a number of days; over the reals that is the comparison of      *)
(* (now - timestamp) with days * DayLen, which is what the model does.     *)
(***************************************************************************)
EXTENDS Integers, Sequences, FiniteSets, TLC

\* ---------------------------------------------------------------- bounds
MaxCalls == 2
MaxTicks == 2
DayLen == 24
MaxTrans == 3
MaxBinds == 2
MaxYaw == 5
\* calls of animate()
MaxAnimate == 2

\* ------------------------------------------------------ program constants
FreshDays == 7
ExpiryDays == 30
Duration == 1000
RotSpeed == 5000
HalfPi == 1570796
PanLimit == 1000
MinScale == 100
MaxScale == 10000

Ids == {"m", "x"}
Urls == {"urlA", "urlB"}
Bytes == {"good", "bad"}
Null == "null"
NoEntry == [data |-> Null, timestamp |-> 0 - 1]
TickSteps == {1, FreshDays * DayLen - 1, (ExpiryDays - FreshDays) * DayLen + 1}
OtherNames == {"theme"}

VARIABLES
    now,            \* Date.now()
    ticks,          \* number of clock advances so far
    kv,             \* idb-keyval store: kv[url] is the entry of key "model:"+url
    resp,           \* Cache Storage "3d-models": resp[url] is the stored body
    other,          \* idb-keyval entries under keys that do not start with "model:"
    lastGet,        \* the direct CacheManager.getModel call that has just returned
    hist,           \* history of the direct CacheManager calls: the saveModel or
                    \* clearExpiredModels call that has just returned, whether a
                    \* storage step ever threw, the urls read since their entry
                    \* was saved, and for each url the age at which a sweep
                    \* deleted its never-read entry (-1 when none did)
    loadedModels,   \* SceneManager.loadedModels: id -> load promise (0: absent)
    hasModelLoaded, \* SceneManager.hasModelLoaded
    models,         \* SceneManager.models: id -> container (0: absent)
    loads,          \* one record per load promise created by loadModel
    calls,          \* one record per loadModel call, with what it returned
    lookups,        \* CacheManager.getModel calls issued by loads, per url
    requests,       \* network requests issued by loads, per url
    scene,          \* activeModelId, transitionProgress, each container's visible
                    \* flag and mesh opacity, the camera and its clipping planes
    raf,            \* callbacks queued with requestAnimationFrame, in order
    clock,          \* performance.now(), in ms
    trans,          \* history of the transitionToModel calls
    orbit           \* the OrbitControlsManager, and the rotation (in microradians),
                    \* position (in hundredths) and scale (in thousandths) of the
                    \* containers it moves

vars == <<now, ticks, kv, resp, other, lastGet, hist, loadedModels, hasModelLoaded, models,
          loads, calls, lookups, requests, scene, raf, clock, trans, orbit>>

cacheHist == <<other, hist>>
frameVars == <<raf, clock, trans, orbit>>

NoGet == [url |-> Null, at |-> 0, before |-> NoEntry, respBefore |-> Null,
          result |-> Null, after |-> NoEntry, consulted |-> FALSE, threw |-> FALSE,
          settled |-> Null, purged |-> 0 - 1]

NoOp == [op |-> "none", at |-> 0, kvBefore |-> [u \in Urls |-> NoEntry],
         otherBefore |-> [n \in OtherNames |-> NoEntry],
         threw |-> FALSE, settled |-> Null]

\* ------------------------------------------------------------ CacheManager

\* the mutant accepts an entry that is exactly 7 days old
IsFresh_Inclusive(timestamp) == (now - timestamp) <= FreshDays * DayLen
\* ageInDays < 7
IsFresh(timestamp) == (now - timestamp) < FreshDays * DayLen

\* the clipping planes of the constructor's camera
NoClip == [model |-> Null, camera |-> [to |-> Null, t |-> 0]]

\* no transitionToModel call yet
NoCall == [target |-> Null, skipped |-> FALSE]

\* what the latest transitionToModel call that passed the guard has done:
\* prev is the id that was active when it was called, solo tells that no
\* other transition was in flight, p is the progress of its latest frame,
\* frames counts its frames, half tells that a frame with progress above
\* 0.5 has run, cams and clips count the camera animations it started and
\* its adjustClippingPlanes calls
NoTransition == [call |-> 0, target |-> Null, prev |-> Null, solo |-> FALSE, p |-> 0,
                 frames |-> 0, half |-> FALSE, done |-> FALSE, cams |-> 0, clips |-> 0,
                 hid |-> FALSE]

\* new OrbitControlsManager(camera, canvas), followed by the three
\* assignments of the SceneManager constructor.  gest is history: "rest"
\* after a mouseup, mouseleave or touchend without fingers, "end1" after a
\* touchend that leaves one finger, "turn" after the one-finger touchmove
\* that follows it, "" otherwise; from is the position of the finger that
\* touchend left, kept over the move that follows; disposed tells that
\* dispose() has been called
NewOrbit ==
    [model |-> Null, listeners |-> 0,
     enableRotate |-> FALSE, enablePan |-> FALSE, enableZoom |-> FALSE,
     isRotating |-> FALSE, isPanning |-> FALSE,
     start |-> <<0, 0>>, previousTouchDistance |-> 0,
     gest |-> "", from |-> <<0, 0>>, disposed |-> FALSE,
     pose |-> [i \in Ids |-> [rx |-> 0, ry |-> 0, px |-> 0, py |-> 0, pz |-> 0,
                             scale |-> 1000]]]

\* the mutant lets the exception of a storage step escape
Caught_Rethrow(threw) == IF threw THEN "rejected" ELSE "resolved"
\* try { ... } catch (error) { console.error(...) }: how the promise of a
\* CacheManager method settles, whether or not a step of its body threw
Caught(threw) == "resolved"

\* CacheManager.getModel(url).  fail names the storage step that throws:
\* "get" (idb get), "caches" (caches.open, cache.match or arrayBuffer),
\* "set" (idb set), or "none".  The result gives the returned bytes, the
\* key-value store afterwards, whether the response store was consulted and
\* whether the catch block ran.
getModel(url, fail) ==
    IF fail = "get"
    THEN [result |-> Null, kv |-> kv, consulted |-> FALSE, threw |-> TRUE,
          settled |-> Caught(TRUE)]
    ELSE IF kv[url] # NoEntry /\ IsFresh(kv[url].timestamp)
    THEN [result |-> kv[url].data, kv |-> kv, consulted |-> FALSE, threw |-> FALSE,
          settled |-> Caught(FALSE)]
    ELSE IF fail = "caches"
    THEN [result |-> Null, kv |-> kv, consulted |-> TRUE, threw |-> TRUE,
          settled |-> Caught(TRUE)]
    ELSE IF resp[url] # Null
    THEN IF fail = "set"
         THEN [result |-> Null, kv |-> kv, consulted |-> TRUE, threw |-> TRUE,
               settled |-> Caught(TRUE)]
         ELSE [result |-> resp[url],
               kv |-> [kv EXCEPT ![url] = [data |-> resp[url], timestamp |-> now]],
               consulted |-> TRUE, threw |-> FALSE, settled |-> Caught(FALSE)]
    ELSE [result |-> Null, kv |-> kv, consulted |-> TRUE, threw |-> FALSE,
          settled |-> Caught(FALSE)]

\* CacheManager.saveModel(url, data).  fail: "set" (idb set throws, nothing
\* is written), "caches" (caches.open or cache.put throws after the
\* key-value entry was written), or "none".
saveModel(url, data, fail) ==
    IF fail = "set"
    THEN [kv |-> kv, resp |-> resp, threw |-> TRUE, settled |-> Caught(TRUE)]
    ELSE [kv |-> [kv EXCEPT ![url] = [data |-> data, timestamp |-> now]],
          resp |-> IF fail = "caches" THEN resp ELSE [resp EXCEPT ![url] = data],
          threw |-> fail = "caches", settled |-> Caught(fail = "caches")]

\* The keys of the idb-keyval store, in the order keys() lists them.
KeyOrder ==
    <<[prefix |-> "model:", name |-> "urlA"], [prefix |-> "model:", name |-> "urlB"],
      [prefix |-> "", name |-> "theme"]>>

\* typeof key === 'string' && key.startsWith('model:')
IsModelKey(key) == key.prefix = "model:"

\* the mutant also deletes an entry that is exactly 30 days old
IsExpired_Inclusive(timestamp) == (now - timestamp) >= ExpiryDays * DayLen
\* ageInDays > 30
IsExpired(timestamp) == (now - timestamp) > ExpiryDays * DayLen

\* get(key) and del(key) on a store st = [kv, other]
EntryOf(st, key) ==
    IF key.prefix = "model:" THEN st.kv[key.name] ELSE st.other[key.name]
Del(st, key) ==
    IF key.prefix = "model:"
    THEN [st EXCEPT !.kv = [@ EXCEPT ![key.name] = NoEntry]]
    ELSE [st EXCEPT !.other = [@ EXCEPT ![key.name] = NoEntry]]

NoFail == [step |-> "none", at |-> 0]
SweepFails ==
    {NoFail, [step |-> "keys", at |-> 0]}
    \cup {[step |-> s, at |-> i] : s \in {"get", "del"}, i \in DOMAIN KeyOrder}

\* the loop of clearExpiredModels from the i-th key on; fail names the
\* get or del that throws, which leaves the deletions made before it
RECURSIVE sweepFrom(_, _, _)
sweepFrom(st, i, fail) ==
    IF i > Len(KeyOrder) THEN [st EXCEPT !.threw = FALSE]
    ELSE LET key == KeyOrder[i]
         IN IF EntryOf(st, key) = NoEntry \/ ~IsModelKey(key)
            THEN sweepFrom(st, i + 1, fail)
            ELSE IF fail = [step |-> "get", at |-> i]
            THEN [st EXCEPT !.threw = TRUE]
            ELSE IF IsExpired(EntryOf(st, key).timestamp)
            THEN IF fail = [step |-> "del", at |-> i]
                 THEN [st EXCEPT !.threw = TRUE]
                 ELSE sweepFrom(Del(st, key), i + 1, fail)
            ELSE sweepFrom(st, i + 1, fail)

\* CacheManager.clearExpiredModels()
clearExpiredModels(fail) ==
    LET st == [kv |-> kv, other |-> other, threw |-> FALSE]
        r == IF fail.step = "keys" THEN [st EXCEPT !.threw = TRUE]
             ELSE sweepFrom(st, 1, fail)
    IN [kv |-> r.kv, other |-> r.other, threw |-> r.threw, settled |-> Caught(r.threw)]

GetFails == {"none", "get", "caches", "set"}
SaveFails == {"none", "set", "caches"}

\* ---------------------------------------------------------------- Init
\* the PerspectiveCamera of the constructor and the numbers SceneManager
\* keeps for it, lengths in thousandths: radii is modelBoundingRadii
\* (NoRadius: no entry),
\* last the id this.models got last, dist the distance of the camera from
\* the origin, where the containers are taken to be, aspect the canvas'
\* width / height in thousandths.
\* projected tells that the last step called updateProjectionMatrix,
\* adjusted that the last step was a call of adjustClippingPlanes, framed
\* names the model the last step placed the camera for, initial tells for
\* which ids initialCameraPositions and initialCameraTargets hold a pose.
NoRadius == 0 - 1
NewCamera ==
    [radii |-> [i \in Ids |-> NoRadius], last |-> Null, dist |-> 0, aspect |-> 1000,
     near |-> 100, far |-> 1000000, projected |-> FALSE, adjusted |-> FALSE,
     framed |-> Null, initial |-> [i \in Ids |-> FALSE]]

\* what the last scroll event did: the scroll offsets, the number of calls
\* of the effect callback, the progress it was given (in thousandths), the
\* id of the object its helper applied a function to, and whether the
\* handler threw
NoScroll ==
    [on |-> FALSE, at |-> <<0, 0>>, calls |-> 0, progress |-> 0, bound |-> Null,
     threw |-> FALSE]

\* the ParallaxManager, which exists when config.parallax is set: objects
\* holds the id and the speed of each registered container
NewParallax ==
    [enabled |-> FALSE, objects |-> <<>>, idActive |-> Null, parallaxEffect |-> Null,
     last |-> NoScroll]

\* what preloadModels has done: on tells that the last step was a call of
\* it, started holds the loads it began, skipped the ids its last call
\* left out, hidden the loads whose then-handler has run, logged the loads
\* whose catch-handler has run, unhandled the loads whose chain of promises
\* ended rejected
NoPreload ==
    [on |-> FALSE, started |-> {}, skipped |-> {}, hidden |-> {}, logged |-> {},
     unhandled |-> {}]

\* the last call of setMaterial, setWireframe, updateModel or
\* resetCameraForModel, and whether it threw
NoEdit == [op |-> "", id |-> Null, threw |-> FALSE]

\* the render closures of animate() that requestAnimationFrame holds,
\* whether SceneManager.dispose() has run, and whether a frame has run a
\* render closure after it
NoLoop == [queued |-> 0, disposed |-> FALSE, late |-> FALSE]

\* mat is the material of the meshes of each model ("gltf": the one it
\* was loaded with) and its wireframe flag
NewScene ==
    [activeModelId |-> Null, transitionProgress |-> 0,
     visible |-> [i \in Ids |-> FALSE], opacity |-> [i \in Ids |-> 0],
     camera |-> [to |-> Null, t |-> 0], clip |-> NoClip, cam |-> NewCamera,
     par |-> NewParallax, pre |-> NoPreload,
     mat |-> [i \in Ids |-> [material |-> "gltf", wireframe |-> FALSE]],
     edit |-> NoEdit, loop |-> NoLoop]

\* everything but the models and the scene
InitRest ==
    /\ now = 0
    /\ ticks = 0
    /\ kv = [u \in Urls |-> NoEntry]
    /\ resp = [u \in Urls |-> Null]
    /\ other = [n \in OtherNames |-> [data |-> "app", timestamp |-> 0]]
    /\ lastGet = NoGet
    /\ hist = [failed |-> FALSE, touched |-> {}, purged |-> [u \in Urls |-> 0 - 1],
               last |-> NoOp]
    /\ loadedModels = [i \in Ids |-> 0]
    /\ loads = <<>>
    /\ calls = <<>>
    /\ lookups = [u \in Urls |-> 0]
    /\ requests = [u \in Urls |-> 0]
    /\ raf = <<>>
    /\ clock = 0
    /\ trans = [n |-> 0, last |-> NoCall, cur |-> NoTransition]
    /\ orbit = NewOrbit

Init ==
    /\ InitRest
    /\ hasModelLoaded = [i \in Ids |-> FALSE]
    /\ models = [i \in Ids |-> 0]
    /\ scene = NewScene

\* ------------------------------------------------------------ SceneManager

\* A load: the promise created by one run of loadModel past its early
\* returns, the position of its executor (phase), of the GLTFLoader request
\* or parse it started (lpc) and of the fetch-and-save tail of the executor
\* (ppc), and the statuses delivered to the onStateChange it was given.
\* lfail records a failure of the download or parse, cfail a failure to
\* obtain the bytes that were to be persisted.
NewLoad(id, url, cb) ==
    [id |-> id, url |-> url, cb |-> cb,
     phase |-> "getModel", lpc |-> "idle", ppc |-> "idle",
     promise |-> "pending", value |-> Null, log |-> <<>>,
     bytes |-> Null, src |-> Null,
     lfail |-> "none", cfail |-> "none"]

\* resolve(model) / reject(error): a promise settles once
Resolve(rec) ==
    IF rec.promise = "pending"
    THEN [rec EXCEPT !.promise = "resolved", !.value = "model"] ELSE rec
Reject(rec, error) ==
    IF rec.promise = "pending"
    THEN [rec EXCEPT !.promise = "rejected", !.value = error] ELSE rec

\* if (onStateChange) onStateChange(status, ...).  Consecutive deliveries of
\* downloading are recorded once.
Emit(rec, status) ==
    IF ~rec.cb THEN rec
    ELSE IF /\ status = "downloading"
            /\ rec.log # <<>>
            /\ rec.log[Len(rec.log)] = "downloading"
    THEN rec
    ELSE [rec EXCEPT !.log = Append(@, status)]

\* the mutant tests the loaded flag instead of the promise map
HasLoadPromise_LoadedFlag(id) == hasModelLoaded[id]
\* this.loadedModels.has(id)
HasLoadPromise(id) == loadedModels[id] # 0

\* this.hasModelLoaded.get(id) && this.models.has(id)
IsAlreadyLoaded(id) == hasModelLoaded[id] /\ models[id] # 0

LoadsOf(id) == {l \in DOMAIN loads : loads[l].id = id}
PendingOf(id) == {l \in LoadsOf(id) : loads[l].promise = "pending"}
Latest(S) == IF S = {} THEN 0 ELSE CHOOSE l \in S : \A k \in S : k <= l

\* What a caller of loadModel sees, and what the program was doing when it
\* called: pending is the load of this id still in flight (0: none), prior
\* the state of the latest load promise of this id.
NewCall(id, url, cb, retPromise, retObject, status, started) ==
    [id |-> id, url |-> url, cb |-> cb,
     pending |-> Latest(PendingOf(id)),
     prior |-> IF LoadsOf(id) = {} THEN "none"
               ELSE loads[Latest(LoadsOf(id))].promise,
     retPromise |-> retPromise, retObject |-> retObject,
     status |-> status, started |-> started]

\* loadModel(id, url, onStateChange): the early returns, or the creation of
\* the load promise, whose executor runs up to its first await (the call of
\* CacheManager.getModel), and its registration in loadedModels.
loadModel(id, url, cb) ==
    /\ Len(calls) < MaxCalls
    /\ IF HasLoadPromise(id)
       THEN /\ calls' = Append(calls, NewCall(id, url, cb, loadedModels[id], 0, Null, 0))
            /\ UNCHANGED <<loadedModels, loads, lookups>>
       ELSE IF IsAlreadyLoaded(id)
       THEN /\ calls' = Append(calls, NewCall(id, url, cb, 0, models[id],
                                   IF cb THEN "model_ready" ELSE Null, 0))
            /\ UNCHANGED <<loadedModels, loads, lookups>>
       ELSE /\ loads' = Append(loads, NewLoad(id, url, cb))
            /\ lookups' = [lookups EXCEPT ![url] = @ + 1]
            /\ loadedModels' = [loadedModels EXCEPT ![id] = Len(loads) + 1]
            /\ calls' = Append(calls, NewCall(id, url, cb, Len(loads) + 1, 0, Null, 1))
    /\ UNCHANGED <<now, ticks, kv, resp, lastGet, hasModelLoaded, models, requests>>
    /\ UNCHANGED <<cacheHist, scene, frameVars>>

\* the url parameter the executor and callbacks of load l closed over; the
\* mutant reads the url of the latest call for the id instead
urlOf_LatestCall(l) ==
    calls[Latest({c \in DOMAIN calls : calls[c].id = loads[l].id})].url
urlOf(l) == loads[l].url

\* The continuation of the executor after `await CacheManager.getModel(url)`.
\* Hit: cache_hit, then loader.parse(cache, ...) is started.  Miss:
\* loader.load(url, ...) is started, checking_cache is delivered and
\* fetch(url) is called; the executor then awaits the fetch.
afterGetModel(l, fail) ==
    /\ l \in DOMAIN loads
    /\ loads[l].phase = "getModel"
    /\ LET rec == loads[l]
           g == getModel(urlOf(l), fail)
       IN /\ kv' = g.kv
          /\ IF g.result # Null
             THEN /\ loads' = [loads EXCEPT ![l] =
                        [Emit(rec, "cache_hit") EXCEPT !.phase = "hit", !.lpc = "parse",
                                                       !.bytes = g.result, !.src = urlOf(l)]]
                  /\ UNCHANGED requests
             ELSE /\ loads' = [loads EXCEPT ![l] =
                        [Emit(rec, "checking_cache") EXCEPT !.phase = "miss",
                                                            !.lpc = "download", !.ppc = "fetch"]]
                  /\ requests' = [requests EXCEPT ![urlOf(l)] = @ + 2]
    /\ UNCHANGED <<now, ticks, resp, lastGet, loadedModels, hasModelLoaded, models,
                   calls, lookups>>
    /\ UNCHANGED <<cacheHist, scene, frameVars>>

\* addModelToScene(id, model): the part of it the loader depends on, the
\* registration of the container built around the model of load l.
addModelToScene(id, l) == [models EXCEPT ![id] = l]

\* ... and the part the scene shows: the new container is visible with
\* opaque meshes, and the camera is placed at the pose stored as the
\* model's initial pose (opacity and progress are in units of 1/Duration)
register(par, id, speed) ==
    [par EXCEPT !.objects = Append(@, [id |-> id, speed |-> speed])]

addedToScene(id) ==
    [scene EXCEPT !.visible[id] = TRUE, !.opacity[id] = Duration,
                  !.camera = [to |-> id, t |-> 1000],
                  !.cam.initial[id] = TRUE,
                  !.par = IF @.enabled THEN register(@, id, Duration \div 1000) ELSE @]

\* the mutant reports model_ready before adding_to_scene
parseOnLoad_ReadyFirst(rec) ==
    Resolve(Emit(Emit(Emit(rec, "parsing"), "model_ready"), "adding_to_scene"))
\* onLoad callback of loader.parse (cache-hit branch)
parseOnLoad(rec) ==
    Resolve(Emit(Emit(Emit(rec, "parsing"), "adding_to_scene"), "model_ready"))

\* onLoad callback of loader.load (cache-miss branch)
loadOnLoad(rec) ==
    Resolve(Emit(Emit(Emit(rec, "parsing"), "adding_to_scene"), "model_ready"))

\* loader.parse(cache, url, onLoad, onError) settles: the cached bytes parse
\* or they do not.
parseDone(l) ==
    /\ l \in DOMAIN loads
    /\ loads[l].lpc = "parse"
    /\ LET rec == loads[l]
       IN IF rec.bytes = "good"
          THEN /\ loads' = [loads EXCEPT ![l] = [parseOnLoad(rec) EXCEPT !.lpc = "done"]]
               /\ models' = addModelToScene(rec.id, l)
               /\ hasModelLoaded' = [hasModelLoaded EXCEPT ![rec.id] = TRUE]
               /\ scene' = addedToScene(rec.id)
          ELSE /\ loads' = [loads EXCEPT ![l] =
                     [Reject(rec, "parse") EXCEPT !.lpc = "done", !.lfail = "parse"]]
               /\ UNCHANGED <<models, hasModelLoaded, scene>>
    /\ UNCHANGED <<now, ticks, kv, resp, lastGet, loadedModels, calls, lookups, requests>>
    /\ UNCHANGED <<cacheHist, frameVars>>

\* onProgress callback of loader.load.  The log keeps one entry for a run
\* of consecutive downloading statuses, so any number of progress events can
\* be delivered.
downloadProgress(l) ==
    /\ l \in DOMAIN loads
    /\ loads[l].lpc = "download"
    /\ loads' = [loads EXCEPT ![l] = Emit(loads[l], "downloading")]
    /\ UNCHANGED <<now, ticks, kv, resp, lastGet, loadedModels, hasModelLoaded, models,
                   calls, lookups, requests>>
    /\ UNCHANGED <<cacheHist, scene, frameVars>>

\* loader.load(url, ...) settles: the request fails ("network"), or it
\* delivers bytes that parse ("good") or do not ("bad").
downloadDone(l, outcome) ==
    /\ l \in DOMAIN loads
    /\ loads[l].lpc = "download"
    /\ LET rec == loads[l]
       IN IF outcome = "good"
          THEN /\ loads' = [loads EXCEPT ![l] =
                     [loadOnLoad(rec) EXCEPT !.lpc = "done", !.src = urlOf(l)]]
               /\ models' = addModelToScene(rec.id, l)
               /\ hasModelLoaded' = [hasModelLoaded EXCEPT ![rec.id] = TRUE]
               /\ scene' = addedToScene(rec.id)
          ELSE /\ loads' = [loads EXCEPT ![l] =
                     [Reject(rec, IF outcome = "bad" THEN "parse" ELSE "network")
                        EXCEPT !.lpc = "done",
                               !.lfail = IF outcome = "bad" THEN "parse" ELSE "network"]]
               /\ UNCHANGED <<models, hasModelLoaded, scene>>
    /\ UNCHANGED <<now, ticks, kv, resp, lastGet, loadedModels, calls, lookups, requests>>
    /\ UNCHANGED <<cacheHist, frameVars>>

\* catch (error) { onStateChange('error', ...); reject(error); }
catchError(rec, error) == Reject(Emit(rec, "error"), error)

\* `await (await fetch(url)).arrayBuffer()` settles: the request or the
\* reading of its body fails ("fail"), or the bytes to persist are there and
\* CacheManager.saveModel is called with them.
fetchDone(l, outcome) ==
    /\ l \in DOMAIN loads
    /\ loads[l].ppc = "fetch"
    /\ loads' = [loads EXCEPT ![l] =
            IF outcome \in Bytes THEN [loads[l] EXCEPT !.ppc = "save", !.bytes = outcome]
            ELSE [catchError(loads[l], "fetch") EXCEPT !.ppc = "done", !.cfail = "fetch"]]
    /\ UNCHANGED <<now, ticks, kv, resp, lastGet, loadedModels, hasModelLoaded, models,
                   calls, lookups, requests>>
    /\ UNCHANGED <<cacheHist, scene, frameVars>>

\* `await CacheManager.saveModel(url, bytes)` settles, then caching
saveDone(l, fail) ==
    /\ l \in DOMAIN loads
    /\ loads[l].ppc = "save"
    /\ LET rec == loads[l]
           s == saveModel(urlOf(l), rec.bytes, fail)
       IN /\ kv' = s.kv
          /\ resp' = s.resp
          /\ loads' = [loads EXCEPT ![l] = [Emit(rec, "caching") EXCEPT !.ppc = "done"]]
    /\ UNCHANGED <<now, ticks, lastGet, loadedModels, hasModelLoaded, models,
                   calls, lookups, requests>>
    /\ UNCHANGED <<cacheHist, scene, frameVars>>

\* the clock advances
Tick(d) ==
    /\ ticks < MaxTicks
    /\ now' = now + d
    /\ ticks' = ticks + 1
    /\ lastGet' = NoGet
    /\ hist' = [hist EXCEPT !.last = NoOp]
    /\ UNCHANGED <<kv, resp, other, loadedModels, hasModelLoaded, models, loads, calls,
                   lookups, requests>>
    /\ UNCHANGED <<scene, frameVars>>

\* ------------------------------------------- direct use of the CacheManager
cacheGet(url, fail) ==
    /\ LET g == getModel(url, fail)
       IN /\ kv' = g.kv
          /\ lastGet' = [url |-> url, at |-> now, before |-> kv[url],
                         respBefore |-> resp[url], result |-> g.result,
                         after |-> g.kv[url], consulted |-> g.consulted,
                         threw |-> g.threw, settled |-> g.settled,
                         purged |-> hist.purged[url]]
          /\ hist' = [failed |-> hist.failed \/ g.threw,
                      touched |-> hist.touched \cup {url},
                      purged |-> [hist.purged EXCEPT ![url] = 0 - 1],
                      last |-> NoOp]
    /\ UNCHANGED <<now, ticks, resp, other, loadedModels, hasModelLoaded, models, loads,
                   calls, lookups, requests>>
    /\ UNCHANGED <<scene, frameVars>>

cacheSave(url, data, fail) ==
    /\ LET s == saveModel(url, data, fail)
       IN /\ kv' = s.kv
          /\ resp' = s.resp
          /\ hist' = [failed |-> hist.failed \/ s.threw,
                      touched |-> hist.touched \ {url},
                      purged |-> [hist.purged EXCEPT ![url] = 0 - 1],
                      last |-> [op |-> "save", at |-> now, kvBefore |-> kv,
                                otherBefore |-> other,
                                threw |-> s.threw, settled |-> s.settled]]
    /\ lastGet' = NoGet
    /\ UNCHANGED <<now, ticks, other, loadedModels, hasModelLoaded, models, loads, calls,
                   lookups, requests>>
    /\ UNCHANGED <<scene, frameVars>>

cacheSweep(fail) ==
    /\ LET c == clearExpiredModels(fail)
       IN /\ kv' = c.kv
          /\ other' = c.other
          /\ hist' = [failed |-> hist.failed \/ c.threw,
                      touched |-> hist.touched,
                      purged |-> [u \in Urls |->
                                    IF /\ kv[u] # NoEntry
                                       /\ c.kv[u] = NoEntry
                                       /\ u \notin hist.touched
                                    THEN now - kv[u].timestamp
                                    ELSE hist.purged[u]],
                      last |-> [op |-> "sweep", at |-> now, kvBefore |-> kv,
                                otherBefore |-> other,
                                threw |-> c.threw, settled |-> c.settled]]
    /\ lastGet' = NoGet
    /\ UNCHANGED <<now, ticks, resp, loadedModels, hasModelLoaded, models, loads, calls,
                   lookups, requests>>
    /\ UNCHANGED <<scene, frameVars>>

\* ------------------------------------------------- SceneManager: transitions
Min(a, b) == IF a < b THEN a ELSE b
Max(a, b) == IF a > b THEN a ELSE b

\* OrbitControlsManager.setModel(model): binds the model and calls
\* setupEvents(), which adds one more listener per event type
setModel(o, id) == [o EXCEPT !.model = id, !.listeners = @ + 1, !.gest = "",
                             !.from = <<0, 0>>]

\* adjustClippingPlanes(): near and far follow from the active model's
\* radius and the camera's distance to it
adjustClippingPlanes(sc) ==
    IF sc.activeModelId = Null \/ models[sc.activeModelId] = 0 THEN sc
    ELSE [sc EXCEPT !.clip = [model |-> sc.activeModelId, camera |-> sc.camera]]

\* a callback queued with requestAnimationFrame
Closure(kind, call, target, start, startTime, duration) ==
    [kind |-> kind, call |-> call, target |-> target, start |-> start,
     startTime |-> startTime, duration |-> duration]

\* one run of the animate closure of animateCameraToInitialPosition at
\* time t: easeOutCubic of the progress, in thousandths
cameraFrame(st, c, t) ==
    LET progress == Min(((t - c.startTime) * 1000) \div c.duration, 1000)
        eased == 1000 - (((1000 - progress) * (1000 - progress) * (1000 - progress))
                         \div 1000000)
    IN [st EXCEPT !.scene.camera = IF eased = 0 THEN @ ELSE [to |-> c.target, t |-> eased],
                  !.raf = IF progress < 1000 THEN Append(@, c) ELSE @]

\* animateCameraToInitialPosition(modelId, duration) called at time t
animateCameraToInitialPosition(st, modelId, duration, t) ==
    IF models[modelId] = 0 THEN st
    ELSE cameraFrame(st, Closure("camera", 0, modelId, Null, t, duration), t)

\* one run of the animateTransition closure c at time t
animateTransition(st, c, t) ==
    LET p == Min(t - c.startTime, Duration)
        latest == c.call = st.trans.cur.call
        s1 == [st EXCEPT !.scene.transitionProgress = p]
        s2 == IF c.start # Null
              THEN [s1 EXCEPT !.scene.visible[c.start] = p * 10 < 8 * Duration,
                              !.scene.opacity[c.start] = Duration - p]
              ELSE s1
        s3 == [s2 EXCEPT !.scene.visible[c.target] = p * 10 > 2 * Duration,
                         !.scene.opacity[c.target] = p]
        turn == p * 10 > 5 * Duration /\ s3.scene.activeModelId # c.target
        s4 == IF turn
              THEN LET a == animateCameraToInitialPosition(s3, c.target, Duration \div 2, t)
                   IN [a EXCEPT !.scene = adjustClippingPlanes(a.scene)]
              ELSE s3
        s5 == IF p < Duration
              THEN [s4 EXCEPT !.raf = Append(@, c)]
              ELSE LET h == IF c.start # Null
                            THEN [s4 EXCEPT !.scene.visible[c.start] = FALSE]
                            ELSE s4
                   IN [h EXCEPT !.scene.visible[c.target] = TRUE,
                                !.scene.transitionProgress = 0,
                                !.scene.opacity[c.target] = Duration,
                                !.orbit = setModel(@, c.target)]
    IN IF latest
       THEN [s5 EXCEPT !.trans.cur.p = p,
                       !.trans.cur.frames = Min(@ + 1, 2),
                       !.trans.cur.half = @ \/ p * 10 > 5 * Duration,
                       !.trans.cur.done = p >= Duration,
                       !.trans.cur.cams = IF turn THEN Min(@ + 1, 2) ELSE @,
                       !.trans.cur.clips = IF turn THEN Min(@ + 1, 2) ELSE @]
       ELSE s5

\* the browser runs the callbacks that were queued before the frame, in
\* order; what they queue waits for the next frame
RECURSIVE runFrame(_, _, _)
runFrame(st, queue, t) ==
    IF queue = <<>> THEN st
    ELSE LET c == Head(queue)
         IN runFrame(IF c.kind = "camera" THEN cameraFrame(st, c, t)
                     ELSE animateTransition(st, c, t),
                     Tail(queue), t)

\* the mutant accepts the active id as a target
CanTransition_AnyLoaded(targetId) == models[targetId] # 0
\* the mutant does not ask whether the target is registered
CanTransition_Unregistered(targetId) == scene.activeModelId # targetId
\* !(!this.models.has(targetId) || this.activeModelId === targetId)
CanTransition(targetId) == models[targetId] # 0 /\ scene.activeModelId # targetId

\* the objects of a load l that has been added: the gltf scene that
\* loader.parse or loader.load delivered, which is what resolve(model) is
\* given, and the THREE.Group addModelToScene creates around it
Undefined == [kind |-> "undefined", load |-> 0]
GltfScene(l) == [kind |-> "gltfScene", load |-> l]
Container(l) == [kind |-> "group", load |-> l]

\* what `await loadModel(...)` gives for load l once it has resolved
Awaited(l) == IF loads[l].promise = "resolved" THEN GltfScene(l) ELSE Undefined

\* SceneManager.getModel(id): this.models.get(id)
getSceneModel(id) == IF models[id] # 0 THEN Container(models[id]) ELSE Undefined

\* the gltf scene under the container of id has visible = false: it is the
\* value the promise of load models[id] resolved with, and the then-handler
\* of preloadModels has set its visible to false; no other statement of
\* SceneManager writes the visible of an object below a container
Hidden(id) == models[id] # 0 /\ models[id] \in scene.pre.hidden

\* SceneManager.transitionToModel(targetId): the guard, the assignment of
\* activeModelId, the capture of startModel and targetModel, and the first
\* synchronous run of animateTransition
transitionToModel(targetId) ==
    /\ trans.n < MaxTrans
    /\ IF ~CanTransition(targetId)
       THEN /\ trans' = [trans EXCEPT !.n = @ + 1,
                                      !.last = [target |-> targetId, skipped |-> TRUE]]
            /\ UNCHANGED <<scene, raf, orbit>>
       ELSE LET active == targetId
                startModel == IF active # Null THEN active ELSE Null
                c == Closure("transition", trans.n + 1, targetId, startModel, clock, Duration)
                st == [scene |-> [scene EXCEPT !.activeModelId = active],
                       raf |-> raf,
                       orbit |-> orbit,
                       trans |-> [n |-> trans.n + 1,
                                  last |-> [target |-> targetId, skipped |-> FALSE],
                                  cur |-> [NoTransition EXCEPT
                                             !.call = trans.n + 1,
                                             !.target = targetId,
                                             !.prev = scene.activeModelId,
                                             !.hid = Hidden(targetId),
                                             !.solo = \A i \in DOMAIN raf :
                                                         raf[i].kind # "transition"]]]
                r == animateTransition(st, c, clock)
            IN /\ scene' = r.scene
               /\ raf' = r.raf
               /\ orbit' = r.orbit
               /\ trans' = r.trans
    /\ UNCHANGED <<now, ticks, kv, resp, lastGet, loadedModels, hasModelLoaded, models,
                   loads, calls, lookups, requests, clock>>
    /\ UNCHANGED cacheHist

\* an animation frame d ms after the previous one
animationFrame(d) ==
    /\ raf # <<>>
    /\ clock' = clock + d
    /\ LET r == runFrame([scene |-> scene, raf |-> <<>>, orbit |-> orbit, trans |-> trans],
                         raf, clock + d)
       IN /\ scene' = r.scene
          /\ raf' = r.raf
          /\ orbit' = r.orbit
          /\ trans' = r.trans
    /\ UNCHANGED <<now, ticks, kv, resp, lastGet, loadedModels, hasModelLoaded, models,
                   loads, calls, lookups, requests>>
    /\ UNCHANGED cacheHist

\* a load of id completes: its onLoad callback adds the parsed model to the
\* scene (loads are not followed here; every container counts as load 1)
modelLoaded(id) ==
    /\ models[id] = 0
    /\ models' = addModelToScene(id, 1)
    /\ hasModelLoaded' = [hasModelLoaded EXCEPT ![id] = TRUE]
    /\ scene' = addedToScene(id)
    /\ UNCHANGED <<now, ticks, kv, resp, lastGet, loadedModels, loads, calls, lookups,
                   requests>>
    /\ UNCHANGED <<cacheHist, frameVars>>

\* ------------------------------------------------------ OrbitControlsManager
\* clientX / clientY of the pointer and of each finger
Points == {<<1000, 0>>, <<1000, 500>>}
Buttons == {0, 1, 2}
OneFinger == {<<p>> : p \in Points}
\* two fingers side by side: wide apart, close together, and wide apart
\* further to the right
TwoFingers ==
    {<<<<0, 0>>, <<2000, 0>>>>, <<<<500, 0>>, <<1500, 0>>>>, <<<<2000, 0>>, <<4000, 0>>>>}

Abs(a) == IF a < 0 THEN 0 - a ELSE a
Clamp(a, lo, hi) == Max(lo, Min(hi, a))
\* Math.hypot for touches that differ in one coordinate only
Hypot(e) == Abs(e[1][1] - e[2][1]) + Abs(e[1][2] - e[2][2])
\* the average position of the two fingers
Mid(e) == <<(e[1][1] + e[2][1]) \div 2, (e[1][2] + e[2][2]) \div 2>>

\* the mutant forgets the lower limit
ClampPitch_UpperOnly(x) == Min(HalfPi, x)
\* Math.max(-Math.PI / 2, Math.min(Math.PI / 2, rotation.x))
ClampPitch(x) == Max(0 - HalfPi, Min(HalfPi, x))

\* handleModelRotation(), current being currentPointerPosition, which every
\* handler writes before it is read
handleModelRotation(o, current) ==
    [o EXCEPT !.pose[o.model].ry = @ + (current[1] - o.start[1]) * RotSpeed,
              !.pose[o.model].rx = ClampPitch(@ + (current[2] - o.start[2]) * RotSpeed)]

handleModelPan(o, current) ==
    [o EXCEPT !.pose[o.model].px =
                 Clamp(@ + (current[1] - o.start[1]), 0 - PanLimit, PanLimit),
              !.pose[o.model].py =
                 Clamp(@ - (current[2] - o.start[2]), 0 - PanLimit, PanLimit),
              !.pose[o.model].pz = @ + 0]

\* the mutant forgets the lower limit of the scale
handleZoom_UpperOnly(o, delta) ==
    [o EXCEPT !.pose[o.model].scale = Min((@ * (100 + delta)) \div 100, MaxScale)]
\* handleZoom(delta), delta in hundredths
handleZoom(o, delta) ==
    [o EXCEPT !.pose[o.model].scale = Clamp((@ * (100 + delta)) \div 100, MinScale, MaxScale)]

onPointerDown(o, button, pos) ==
    IF button = 0 /\ o.enableRotate THEN [o EXCEPT !.isRotating = TRUE, !.start = pos]
    ELSE IF button = 2 /\ o.enablePan THEN [o EXCEPT !.isPanning = TRUE, !.start = pos]
    ELSE o

onPointerMove(o, pos) ==
    LET m == IF o.isRotating THEN handleModelRotation(o, pos)
             ELSE IF o.isPanning THEN handleModelPan(o, pos)
             ELSE o
    IN [m EXCEPT !.start = pos]

onPointerUp(o) == [o EXCEPT !.isRotating = FALSE, !.isPanning = FALSE]

onTouchStart(o, e) ==
    IF Len(e) = 1
    THEN IF o.enableRotate THEN [o EXCEPT !.isRotating = TRUE, !.start = e[1]] ELSE o
    ELSE IF Len(e) = 2
    THEN IF o.enablePan
         THEN [o EXCEPT !.isPanning = TRUE, !.start = Mid(e),
                        !.previousTouchDistance = Hypot(e)]
         ELSE o
    ELSE o

onTouchMove(o, e) ==
    IF Len(e) = 1 /\ o.isRotating
    THEN [handleModelRotation(o, e[1]) EXCEPT !.start = e[1]]
    ELSE IF Len(e) = 2 /\ o.isPanning
    THEN LET m == [handleModelPan(o, Mid(e)) EXCEPT !.start = Mid(e)]
         IN IF o.enableZoom
            THEN [handleZoom(m, Hypot(e) - o.previousTouchDistance)
                    EXCEPT !.previousTouchDistance = Hypot(e)]
            ELSE m
    ELSE o

\* the mutant keeps the start position of the gesture that ended
onTouchEnd_KeepStart(o, e) ==
    IF Len(e) = 0 THEN [o EXCEPT !.isRotating = FALSE, !.isPanning = FALSE]
    ELSE IF Len(e) = 1
    THEN [o EXCEPT !.isPanning = FALSE, !.isRotating = TRUE]
    ELSE o
\* e holds the fingers that remain on the element
onTouchEnd(o, e) ==
    IF Len(e) = 0 THEN [o EXCEPT !.isRotating = FALSE, !.isPanning = FALSE]
    ELSE IF Len(e) = 1
    THEN [o EXCEPT !.isPanning = FALSE, !.isRotating = TRUE, !.start = e[1]]
    ELSE o

\* the element calls every registered listener of the event's type; each
\* setModel has registered one more bound copy of the handler
Event(type, button, pos, touches) ==
    [type |-> type, button |-> button, pos |-> pos, touches |-> touches]

Listener(o, e) ==
    CASE e.type = "mousedown" -> onPointerDown(o, e.button, e.pos)
      [] e.type = "mousemove" -> onPointerMove(o, e.pos)
      [] e.type = "mouseup" -> onPointerUp(o)
      [] e.type = "touchstart" -> onTouchStart(o, e.touches)
      [] e.type = "touchmove" -> onTouchMove(o, e.touches)
      [] e.type = "touchend" -> onTouchEnd(o, e.touches)

Dispatch(o, e) ==
    LET f[i \in 0..o.listeners] == IF i = 0 THEN o ELSE Listener(f[i - 1], e)
    IN f[o.listeners]

Yaws(o) == {Abs(o.pose[i].ry) : i \in Ids}

\* an event reaches the listeners once setupEvents has registered some
Delivered(o) ==
    /\ orbit.listeners > 0
    /\ \A y \in Yaws(o) : y <= MaxYaw * 1000000

notOrbit == <<now, ticks, kv, resp, lastGet, loadedModels, hasModelLoaded, models,
              loads, calls, lookups, requests, scene, raf, clock, trans, cacheHist>>

mouseDown(button, pos) ==
    LET o == Dispatch(orbit, Event("mousedown", button, pos, <<>>))
    IN /\ Delivered(o)
       /\ orbit' = [o EXCEPT !.gest = "", !.from = <<0, 0>>]
       /\ UNCHANGED notOrbit

mouseMove(pos) ==
    LET o == Dispatch(orbit, Event("mousemove", 0, pos, <<>>))
    IN /\ Delivered(o)
       /\ orbit' = [o EXCEPT !.gest = "", !.from = <<0, 0>>]
       /\ UNCHANGED notOrbit

\* mouseup and mouseleave
mouseUp ==
    LET o == Dispatch(orbit, Event("mouseup", 0, <<0, 0>>, <<>>))
    IN /\ Delivered(o)
       /\ orbit' = [o EXCEPT !.gest = "rest", !.from = <<0, 0>>]
       /\ UNCHANGED notOrbit

touchStart(e) ==
    LET o == Dispatch(orbit, Event("touchstart", 0, <<0, 0>>, e))
    IN /\ Delivered(o)
       /\ orbit' = [o EXCEPT !.gest = "", !.from = <<0, 0>>]
       /\ UNCHANGED notOrbit

touchMove(e) ==
    LET o == Dispatch(orbit, Event("touchmove", 0, <<0, 0>>, e))
    IN /\ Delivered(o)
       /\ orbit' = IF orbit.gest = "end1" /\ Len(e) = 1
                   THEN [o EXCEPT !.gest = "turn"]
                   ELSE [o EXCEPT !.gest = "", !.from = <<0, 0>>]
       /\ UNCHANGED notOrbit

\* touchend and touchcancel
touchEnd(e) ==
    LET o == Dispatch(orbit, Event("touchend", 0, <<0, 0>>, e))
    IN /\ Delivered(o)
       /\ orbit' = IF Len(e) = 0
                   THEN [o EXCEPT !.gest = "rest", !.from = <<0, 0>>]
                   ELSE [o EXCEPT !.gest = "end1", !.from = e[1]]
       /\ UNCHANGED notOrbit

\* SceneManager.setupOrbitControls(options)
setupOrbitControls(rotate, zoom, pan) ==
    /\ orbit' = [orbit EXCEPT !.enablePan = pan, !.enableZoom = zoom,
                              !.enableRotate = rotate, !.gest = "", !.from = <<0, 0>>]
    /\ UNCHANGED notOrbit

\* controls.setModel(container) for the container of id
bindModel(id) ==
    /\ orbit.listeners < MaxBinds
    /\ orbit' = setModel(orbit, id)
    /\ UNCHANGED notOrbit

\* ------------------------------------------------------------- the camera
\* Math.tan(fovRad / 2) for the fov of 75 degrees, in thousandths
TanHalfFov == 767
Margin == 800
NearMargin == 100
FarMultiplier == 10
Epsilon == 1

\* the camera distance of addModelToScene and handleResize for a bounding
\* sphere of the given radius
cameraDistance(radius, aspect) ==
    LET tanH == (TanHalfFov * aspect) \div 1000
        distanceV == (radius * 1000) \div TanHalfFov
        distanceH == (radius * 1000) \div tanH
    IN (Max(distanceV, distanceH) * Margin) \div 1000

\* the mutant writes the planes on every call that gets to them
clippingPlanes_Always(sc) ==
    LET c == sc.cam
        id == sc.activeModelId
    IN IF id = Null THEN sc
       ELSE LET radius == c.radii[id]
            IN IF radius = NoRadius \/ radius = 0 THEN sc
               ELSE IF models[id] = 0 THEN sc
               ELSE LET near == Max(Epsilon, c.dist - radius - NearMargin)
                        far == c.dist + radius * FarMultiplier
                    IN [sc EXCEPT !.cam.near = near, !.cam.far = far,
                                  !.cam.projected = TRUE]
\* adjustClippingPlanes() in numbers
clippingPlanes(sc) ==
    LET c == sc.cam
        id == sc.activeModelId
    IN IF id = Null THEN sc
       ELSE LET radius == c.radii[id]
            IN IF radius = NoRadius \/ radius = 0 THEN sc
               ELSE IF models[id] = 0 THEN sc
               ELSE LET near == Max(Epsilon, c.dist - radius - NearMargin)
                        far == c.dist + radius * FarMultiplier
                    IN IF Abs(c.near - near) > Epsilon \/ Abs(c.far - far) > Epsilon
                       THEN [sc EXCEPT !.cam.near = near, !.cam.far = far,
                                       !.cam.projected = TRUE]
                       ELSE sc

notScene == <<now, ticks, kv, resp, lastGet, loadedModels, loads, calls, lookups,
              requests, raf, clock, trans, orbit, cacheHist>>

\* a load of id completes with a model whose bounding sphere has the given
\* radius: addModelToScene stores the radius and places the camera
modelFramed(id, radius) ==
    /\ models[id] = 0
    /\ models' = addModelToScene(id, 1)
    /\ hasModelLoaded' = [hasModelLoaded EXCEPT ![id] = TRUE]
    /\ scene' = [addedToScene(id) EXCEPT
                   !.cam.radii[id] = radius,
                   !.cam.last = id,
                   !.cam.dist = cameraDistance(radius, scene.cam.aspect),
                   !.cam.framed = id,
                   !.cam.projected = FALSE,
                   !.cam.adjusted = FALSE]
    /\ UNCHANGED notScene

\* the ResizeObserver callback for a canvas of the given aspect: the camera
\* is placed for every model in turn, so the last one decides
handleResize(aspect) ==
    /\ scene' = [scene EXCEPT
                   !.cam.aspect = aspect,
                   !.cam.dist = IF scene.cam.last = Null THEN @
                                ELSE cameraDistance(scene.cam.radii[scene.cam.last], aspect),
                   !.cam.framed = scene.cam.last,
                   !.cam.projected = TRUE,
                   !.cam.adjusted = FALSE]
    /\ UNCHANGED <<notScene, models, hasModelLoaded>>

\* the camera animation or the zoom of the controls moves the camera
moveCamera(d) ==
    /\ scene' = [scene EXCEPT !.cam.dist = d, !.cam.framed = Null,
                              !.cam.projected = FALSE, !.cam.adjusted = FALSE]
    /\ UNCHANGED <<notScene, models, hasModelLoaded>>

\* one run of the render closure of animate()
render ==
    /\ scene' = [clippingPlanes([scene EXCEPT !.cam.projected = FALSE])
                   EXCEPT !.cam.adjusted = TRUE, !.cam.framed = Null]
    /\ UNCHANGED <<notScene, models, hasModelLoaded>>

\* one run of a render closure of animate(): it queues itself again, so the
\* number of queued closures stays, and then adjusts the clipping planes
\* and renders
renderRun(sc) ==
    [clippingPlanes([sc EXCEPT !.cam.projected = FALSE])
       EXCEPT !.cam.adjusted = TRUE, !.cam.framed = Null]

\* SceneManager.animate(): defines the closure and runs it once
animate ==
    /\ scene.loop.queued < MaxAnimate
    /\ scene' = renderRun([scene EXCEPT !.loop.queued = @ + 1])
    /\ UNCHANGED <<notScene, models, hasModelLoaded>>

\* the browser runs the callbacks requestAnimationFrame holds; each of the
\* render closures queues itself for the next frame
renderFrame ==
    /\ scene.loop.queued > 0
    /\ scene' = [renderRun(scene) EXCEPT !.loop.late = @ \/ scene.loop.disposed]
    /\ UNCHANGED <<notScene, models, hasModelLoaded>>

\* ----------------------------------------------------------- preloading
\* promise.then(onFulfilled): the state of the promise it returns
Then(promise, throws) ==
    IF promise = "resolved" THEN (IF throws THEN "rejected" ELSE "resolved")
    ELSE promise

\* the mutant leaves the chain without a catch
Catch_None(promise) == promise
\* promise.catch(onRejected) with a handler that logs
Catch(promise) == IF promise = "rejected" THEN "resolved" ELSE promise

\* models.forEach(({ id, url }) => ...) of preloadModels, from the entry at
\* the head of list on; loadModel is called without onStateChange and runs
\* past its early returns, as neither map holds the id
RECURSIVE preloadFrom(_, _)
preloadFrom(st, list) ==
    IF list = <<>> THEN st
    ELSE LET id == Head(list)[1]
             url == Head(list)[2]
             l == Len(st.loads) + 1
         IN IF models[id] = 0 /\ st.loadedModels[id] = 0
            THEN preloadFrom(
                   [st EXCEPT !.loads = Append(@, NewLoad(id, url, FALSE)),
                              !.lookups[url] = @ + 1,
                              !.loadedModels[id] = l,
                              !.calls = Append(@, NewCall(id, url, FALSE, l, 0, Null, 1)),
                              !.pre.started = @ \cup {l}],
                   Tail(list))
            ELSE preloadFrom([st EXCEPT !.pre.skipped = @ \cup {id}], Tail(list))

\* preloadModels(models)
preloadModels(list) ==
    /\ Len(calls) + Len(list) <= MaxCalls
    /\ LET r == preloadFrom([loads |-> loads, lookups |-> lookups,
                             loadedModels |-> loadedModels, calls |-> calls,
                             pre |-> [scene.pre EXCEPT !.on = TRUE, !.skipped = {}]],
                            list)
       IN /\ loads' = r.loads
          /\ lookups' = r.lookups
          /\ loadedModels' = r.loadedModels
          /\ calls' = r.calls
          /\ scene' = [scene EXCEPT !.pre = r.pre]
    /\ UNCHANGED <<now, ticks, kv, resp, lastGet, hasModelLoaded, models, requests>>
    /\ UNCHANGED <<cacheHist, frameVars>>

\* the handlers preloadModels attached to the promise of load l run once
\* it has settled: model.visible = false and transitionModels.set(id, model)
\* in then, console.error in catch
preloadReaction(l) ==
    /\ l \in scene.pre.started
    /\ l \notin scene.pre.hidden \cup scene.pre.logged \cup scene.pre.unhandled
    /\ loads[l].promise # "pending"
    /\ LET afterThen == Then(loads[l].promise, FALSE)
           end == Catch(afterThen)
       IN scene' = [scene EXCEPT
                      !.pre.on = FALSE,
                      !.pre.hidden = IF loads[l].promise = "resolved" THEN @ \cup {l} ELSE @,
                      !.pre.logged = IF afterThen = "rejected" /\ end = "resolved"
                                     THEN @ \cup {l} ELSE @,
                      !.pre.unhandled = IF end = "rejected" THEN @ \cup {l} ELSE @]
    /\ UNCHANGED <<now, ticks, kv, resp, lastGet, loadedModels, hasModelLoaded, models,
                   loads, calls, lookups, requests>>
    /\ UNCHANGED <<cacheHist, frameVars>>

\* ------------------------------------------------------- editing a model
\* the updater functions: the ones setMaterial and setWireframe build, and
\* a host's that hides the model
Updater(kind, arg) == [kind |-> kind, arg |-> arg]

\* updater(model) for the container of id; an updater given undefined
\* throws when it reads model.traverse or sets model.visible
Apply(updater, sc, id) ==
    IF models[id] = 0 THEN [sc EXCEPT !.edit.threw = TRUE]
    ELSE IF updater.kind = "material"
    THEN [sc EXCEPT !.mat[id] = [material |-> updater.arg, wireframe |-> FALSE]]
    ELSE IF updater.kind = "wireframe"
    THEN [sc EXCEPT !.mat[id].wireframe = updater.arg]
    ELSE [sc EXCEPT !.visible[id] = FALSE]

\* the mutant calls the updater whether or not the model exists
updateModel_NoGuard(sc, id, updater) == Apply(updater, sc, id)
\* updateModel(id, updater)
updateModel(sc, id, updater) ==
    IF models[id] # 0 THEN Apply(updater, sc, id) ELSE sc

\* the material classes of setMaterial
Materials == {"basic", "phong", "standard", "physical"}

Edit(op, id) == [scene EXCEPT !.edit = [op |-> op, id |-> id, threw |-> FALSE]]

setMaterial(id, materialType) ==
    /\ scene' = updateModel(Edit("setMaterial", id), id, Updater("material", materialType))
    /\ UNCHANGED <<notScene, models, hasModelLoaded>>

setWireframe(id, enabled) ==
    /\ scene' = updateModel(Edit("setWireframe", id), id, Updater("wireframe", enabled))
    /\ UNCHANGED <<notScene, models, hasModelLoaded>>

\* updateModel(id, model => { model.visible = false })
hide(id) ==
    /\ scene' = updateModel(Edit("updateModel", id), id, Updater("hide", FALSE))
    /\ UNCHANGED <<notScene, models, hasModelLoaded>>

\* resetCameraForModel(modelId): the camera and the target of the controls
\* go to the pose stored when the model was added
resetCameraForModel(modelId) ==
    /\ scene' = IF models[modelId] # 0
                THEN [Edit("resetCameraForModel", modelId) EXCEPT
                         !.camera = [to |-> modelId, t |-> 1000]]
                ELSE Edit("resetCameraForModel", modelId)
    /\ UNCHANGED <<notScene, models, hasModelLoaded>>

\* --------------------------------------------------------- ParallaxManager
\* objects.find(o => o.id === id): the index of the first match, 0 if none
Find(objects, id) ==
    LET I == {k \in 1..Len(objects) : objects[k].id = id}
    IN IF I = {} THEN 0 ELSE CHOOSE k \in I : \A j \in I : k <= j

\* the effect callbacks of the host: "log" only reads the progress, "spin"
\* passes the helper a function that sets rotation.y to the progress
Effects == {"log", "spin"}

\* parallaxEffect(progress, on), on applying its argument to the container
\* of id
parallaxEffect(name, pose, id, progress) ==
    IF name = "spin" THEN [pose EXCEPT ![id].ry = progress * 1000] ELSE pose

\* a scroll event: scrollX, scrollY and scrollHeight - innerHeight, in px
Scrolls == {<<0, 0, 100>>, <<3, 40, 100>>, <<0, 100, 100>>}

\* the mutant moves every registered object
onScroll_All(st, e) ==
    LET par == st.par
    IN IF par.idActive # Null /\ par.parallaxEffect # Null
       THEN LET k == Find(par.objects, par.idActive)
                obj == par.objects[k]
                progress == (e[2] * 1000) \div e[3]
                regd == {par.objects[j].id : j \in 1..Len(par.objects)}
                moved == [i \in Ids |->
                            IF i \in regd
                            THEN [st.pose[i] EXCEPT !.py = e[2] * obj.speed * 100,
                                                    !.px = e[1] * obj.speed * 100]
                            ELSE st.pose[i]]
            IN [par |-> [par EXCEPT !.last = [on |-> TRUE, at |-> <<e[1], e[2]>>,
                                              calls |-> 1, progress |-> progress,
                                              bound |-> obj.id, threw |-> FALSE]],
                pose |-> parallaxEffect(par.parallaxEffect, moved, obj.id, progress)]
       ELSE [st EXCEPT !.par.last = [NoScroll EXCEPT !.on = TRUE, !.at = <<e[1], e[2]>>]]
\* onScroll(), positions in hundredths; obj is undefined when no object is
\* registered under idActive, and reading obj.mesh then throws
onScroll(st, e) ==
    LET par == st.par
    IN IF par.idActive # Null /\ par.parallaxEffect # Null
       THEN LET k == Find(par.objects, par.idActive)
            IN IF k = 0
               THEN [st EXCEPT !.par.last = [NoScroll EXCEPT !.on = TRUE,
                                                             !.at = <<e[1], e[2]>>,
                                                             !.threw = TRUE]]
               ELSE LET obj == par.objects[k]
                        progress == (e[2] * 1000) \div e[3]
                        moved == [st.pose EXCEPT ![obj.id].py = e[2] * obj.speed * 100,
                                                 ![obj.id].px = e[1] * obj.speed * 100]
                    IN [par |-> [par EXCEPT !.last = [on |-> TRUE, at |-> <<e[1], e[2]>>,
                                                      calls |-> 1, progress |-> progress,
                                                      bound |-> obj.id, threw |-> FALSE]],
                        pose |-> parallaxEffect(par.parallaxEffect, moved, obj.id, progress)]
       ELSE [st EXCEPT !.par.last = [NoScroll EXCEPT !.on = TRUE, !.at = <<e[1], e[2]>>]]

\* the window's scroll event
scroll(e) ==
    /\ scene.par.enabled
    /\ LET r == onScroll([par |-> scene.par, pose |-> orbit.pose], e)
       IN /\ scene' = [scene EXCEPT !.par = r.par]
          /\ orbit' = [orbit EXCEPT !.pose = r.pose]
    /\ UNCHANGED <<now, ticks, kv, resp, lastGet, loadedModels, hasModelLoaded, models,
                   loads, calls, lookups, requests, raf, clock, trans, cacheHist>>

\* ParallaxManager.unregister(mesh), mesh being the container of id:
\* objects.filter(obj => obj.mesh !== mesh); idActive stays as it is
unregister(id) ==
    /\ scene.par.enabled
    /\ models[id] # 0
    /\ scene' = [scene EXCEPT
                   !.par.objects = SelectSeq(@, LAMBDA obj : obj.id # id),
                   !.par.last = NoScroll]
    /\ UNCHANGED <<notScene, models, hasModelLoaded>>

\* SceneManager.handleParallaxEffects(onProgress)
handleParallaxEffects(onProgress) ==
    /\ scene' = IF scene.par.enabled /\ scene.activeModelId # Null
                THEN [scene EXCEPT !.par.idActive = scene.activeModelId,
                                   !.par.parallaxEffect = onProgress,
                                   !.par.last = NoScroll]
                ELSE [scene EXCEPT !.par.last = NoScroll]
    /\ UNCHANGED <<notScene, models, hasModelLoaded>>

\* the functions the element holds for an event type: setupEvents registers
\* a fresh this.onX.bind(this) on every call
Registered(o) == {<<"bound", k>> : k \in 1..o.listeners}

\* the method itself, as dispose names it
Method == <<"method", 0>>

\* domElement.removeEventListener(type, fn) removes the registered function
\* that is fn
removeEventListener(registered, fn) == registered \ {fn}

\* OrbitControlsManager.dispose()
disposeControls(o) ==
    [o EXCEPT !.listeners = Cardinality(removeEventListener(Registered(o), Method)),
              !.disposed = TRUE]

dispose ==
    /\ orbit' = disposeControls(orbit)
    /\ UNCHANGED notOrbit

\* SceneManager.dispose(): the observer and the renderer are released, the
\* containers leave the scene graph (this.models keeps them) and the
\* controls are disposed of; no requestAnimationFrame handle is kept, so
\* nothing is cancelled
disposeScene ==
    /\ ~scene.loop.disposed
    /\ scene' = [scene EXCEPT !.loop.disposed = TRUE]
    /\ orbit' = disposeControls(orbit)
    /\ UNCHANGED <<now, ticks, kv, resp, lastGet, loadedModels, hasModelLoaded, models,
                   loads, calls, lookups, requests, raf, clock, trans>>
    /\ UNCHANGED cacheHist

\* --------------------------------------------------------- specifications
\* Ids and urls are interchangeable names: the first call is taken to name
\* "m" and "urlA", later calls name any id and url.
CallInputs ==
    IF calls = <<>> THEN {<<"m", "urlA">>} ELSE Ids \X Urls

Next ==
    \/ \E in \in CallInputs, cb \in BOOLEAN : loadModel(in[1], in[2], cb)
    \/ \E l \in 1..MaxCalls, fail \in GetFails : afterGetModel(l, fail)
    \/ \E l \in 1..MaxCalls : parseDone(l)
    \/ \E l \in 1..MaxCalls : downloadProgress(l)
    \/ \E l \in 1..MaxCalls, outcome \in Bytes \cup {"network"} : downloadDone(l, outcome)
    \/ \E l \in 1..MaxCalls, outcome \in Bytes \cup {"fail"} : fetchDone(l, outcome)
    \/ \E l \in 1..MaxCalls, fail \in SaveFails : saveDone(l, fail)

Spec == Init /\ [][Next]_vars

\* the steps the browser takes on its own: the cache lookup, the request of
\* the loader, the fetch and the save settle
Settle ==
    \/ \E l \in 1..MaxCalls, fail \in GetFails : afterGetModel(l, fail)
    \/ \E l \in 1..MaxCalls : parseDone(l)
    \/ \E l \in 1..MaxCalls, outcome \in Bytes \cup {"network"} : downloadDone(l, outcome)
    \/ \E l \in 1..MaxCalls, outcome \in Bytes \cup {"fail"} : fetchDone(l, outcome)
    \/ \E l \in 1..MaxCalls, fail \in SaveFails : saveDone(l, fail)

\* every started lookup, request, fetch and save settles in the end
FairSpec == Spec /\ WF_vars(Settle)

CacheNext ==
    \/ \E url \in Urls, fail \in GetFails : cacheGet(url, fail)
    \/ \E url \in Urls, data \in Bytes, fail \in SaveFails : cacheSave(url, data, fail)
    \/ \E fail \in SweepFails : cacheSweep(fail)
    \/ \E d \in TickSteps : Tick(d)

CacheSpec == Init /\ [][CacheNext]_vars

FrameSteps == {200, 300}

TransNext ==
    \/ \E id \in Ids : modelLoaded(id)
    \/ \E targetId \in Ids : transitionToModel(targetId)
    \/ \E d \in FrameSteps : animationFrame(d)

TransSpec == Init /\ [][TransNext]_vars

OrbitNext ==
    \/ \E rotate \in BOOLEAN, zoom \in BOOLEAN, pan \in BOOLEAN :
          setupOrbitControls(rotate, zoom, pan)
    \/ bindModel("m")
    \/ \E button \in Buttons, pos \in Points : mouseDown(button, pos)
    \/ \E pos \in Points : mouseMove(pos)
    \/ mouseUp
    \/ \E e \in OneFinger \cup TwoFingers : touchStart(e)
    \/ \E e \in OneFinger \cup TwoFingers : touchMove(e)
    \/ \E e \in {<<>>} \cup OneFinger : touchEnd(e)

OrbitSpec == Init /\ [][OrbitNext]_vars

\* the controls with every gesture enabled, bound and disposed of
DisposeNext ==
    \/ setupOrbitControls(TRUE, TRUE, TRUE)
    \/ bindModel("m")
    \/ dispose
    \/ \E button \in Buttons, pos \in Points : mouseDown(button, pos)
    \/ \E pos \in Points : mouseMove(pos)
    \/ mouseUp
    \/ \E e \in OneFinger \cup TwoFingers : touchStart(e)
    \/ \E e \in OneFinger \cup TwoFingers : touchMove(e)
    \/ \E e \in {<<>>} \cup OneFinger : touchEnd(e)

DisposeSpec == Init /\ [][DisposeNext]_vars

\* two fingers 2000, 2100 and 200 px apart, around x = 2000 and x = 4000
Pinches ==
    {<<<<1000, 0>>, <<3000, 0>>>>, <<<<950, 0>>, <<3050, 0>>>>,
     <<<<3000, 0>>, <<5000, 0>>>>, <<<<1900, 0>>, <<2100, 0>>>>}

\* panning with the right button and with two fingers, and pinching
PanZoomNext ==
    \/ setupOrbitControls(TRUE, TRUE, TRUE)
    \/ bindModel("m")
    \/ \E pos \in Points : mouseDown(2, pos)
    \/ \E pos \in Points : mouseMove(pos)
    \/ mouseUp
    \/ \E e \in Pinches : touchStart(e)
    \/ \E e \in Pinches : touchMove(e)
    \/ touchEnd(<<>>)

PanZoomSpec == Init /\ [][PanZoomNext]_vars

\* radii, camera distances and aspects, in thousandths
Radii == {0, 500, 1000}
Dists == {0, 550, 1000, 1001, 1002, 3000}
Aspects == {500, 1000, 2000}

\* the scene manager with some of the models added, one of them or none
\* active, and the camera somewhere on its axis
CameraInit ==
    /\ InitRest
    /\ \E loaded \in SUBSET Ids, radii \in [Ids -> Radii], d \in Dists, aspect \in Aspects :
          \E active \in {Null} \cup loaded, last \in Ids :
             /\ (loaded # {}) => last \in loaded
             /\ (loaded = {}) => last = "m"
             /\ models = [i \in Ids |-> IF i \in loaded THEN 1 ELSE 0]
             /\ hasModelLoaded = [i \in Ids |-> i \in loaded]
             /\ scene = [NewScene EXCEPT
                           !.activeModelId = active,
                           !.visible = [i \in Ids |-> i \in loaded],
                           !.opacity = [i \in Ids |-> IF i \in loaded THEN Duration ELSE 0],
                           !.camera = IF loaded = {} THEN @ ELSE [to |-> last, t |-> 1000],
                           !.cam.radii = [i \in Ids |-> IF i \in loaded THEN radii[i]
                                                        ELSE NoRadius],
                           !.cam.last = IF loaded = {} THEN Null ELSE last,
                           !.cam.initial = [i \in Ids |-> i \in loaded],
                           !.cam.dist = d,
                           !.cam.aspect = aspect]

CameraNext ==
    \/ \E id \in Ids, radius \in Radii : modelFramed(id, radius)
    \/ \E aspect \in Aspects : handleResize(aspect)
    \/ \E d \in Dists : moveCamera(d)
    \/ render

CameraSpec == CameraInit /\ [][CameraNext]_vars

\* a scene manager constructed with config.parallax; the frames are a
\* second apart, so that a transition is over in one
ParallaxInit ==
    /\ InitRest
    /\ hasModelLoaded = [i \in Ids |-> FALSE]
    /\ models = [i \in Ids |-> 0]
    /\ scene = [NewScene EXCEPT !.par.enabled = TRUE]

ParallaxNext ==
    \/ \E id \in Ids : modelLoaded(id)
    \/ \E targetId \in Ids : transitionToModel(targetId)
    \/ animationFrame(Duration)
    \/ \E onProgress \in Effects \cup {Null} : handleParallaxEffects(onProgress)
    \/ \E e \in Scrolls : scroll(e)

ParallaxSpec == ParallaxInit /\ [][ParallaxNext]_vars

\* the entries of a preload list
Entries == {<<"m", "urlA">>, <<"x", "urlB">>, <<"x", "urlA">>}
Lists == {<<a>> : a \in Entries} \cup {<<a, b>> : a \in Entries, b \in Entries}

\* the host preloads models, and loads one itself
PreloadNext ==
    \/ \E list \in Lists : preloadModels(list)
    \/ \E l \in 1..MaxCalls : preloadReaction(l)
    \/ \E in \in CallInputs : loadModel(in[1], in[2], FALSE)
    \/ \E l \in 1..MaxCalls, fail \in GetFails : afterGetModel(l, fail)
    \/ \E l \in 1..MaxCalls : parseDone(l)
    \/ \E l \in 1..MaxCalls : downloadProgress(l)
    \/ \E l \in 1..MaxCalls, outcome \in Bytes \cup {"network"} : downloadDone(l, outcome)
    \/ \E l \in 1..MaxCalls, outcome \in Bytes \cup {"fail"} : fetchDone(l, outcome)
    \/ \E l \in 1..MaxCalls, fail \in SaveFails : saveDone(l, fail)

PreloadSpec == Init /\ [][PreloadNext]_vars

\* models are added and edited
EditNext ==
    \/ \E id \in Ids : modelLoaded(id)
    \/ \E id \in Ids, materialType \in Materials : setMaterial(id, materialType)
    \/ \E id \in Ids, enabled \in BOOLEAN : setWireframe(id, enabled)
    \/ \E id \in Ids : hide(id)
    \/ \E id \in Ids : resetCameraForModel(id)

EditSpec == Init /\ [][EditNext]_vars

\* models of some radius are added and activated, the canvas is resized and
\* the scene manager is disposed of
ActiveNext ==
    \/ \E id \in Ids, radius \in Radii : modelFramed(id, radius)
    \/ \E targetId \in Ids : transitionToModel(targetId)
    \/ animationFrame(Duration)
    \/ \E aspect \in Aspects : handleResize(aspect)
    \/ disposeScene

ActiveSpec == Init /\ [][ActiveNext]_vars

\* the parallax engine with objects registered and unregistered; the page
\* is scrolled to one place
EngineNext ==
    \/ \E id \in Ids : modelLoaded(id)
    \/ \E targetId \in Ids : transitionToModel(targetId)
    \/ animationFrame(Duration)
    \/ \E onProgress \in Effects \cup {Null} : handleParallaxEffects(onProgress)
    \/ scroll(<<3, 40, 100>>)
    \/ \E id \in Ids : unregister(id)

EngineSpec == ParallaxInit /\ [][EngineNext]_vars

\* the render loop is started, models are added, the camera moves and the
\* scene manager is disposed of
LoopNext ==
    \/ animate
    \/ renderFrame
    \/ disposeScene
    \/ \E id \in Ids, radius \in Radii : modelFramed(id, radius)
    \/ \E d \in Dists : moveCamera(d)

LoopSpec == Init /\ [][LoopNext]_vars

\* preloaded models are shown: one entry a list, the lookups, requests and
\* saves succeed
ShowLists == {<<<<"m", "urlA">>>>, <<<<"x", "urlA">>>>}

ShowNext ==
    \/ \E list \in ShowLists : preloadModels(list)
    \/ \E l \in 1..MaxCalls : preloadReaction(l)
    \/ \E l \in 1..MaxCalls : afterGetModel(l, "none")
    \/ \E l \in 1..MaxCalls : parseDone(l)
    \/ \E l \in 1..MaxCalls : downloadDone(l, "good")
    \/ \E l \in 1..MaxCalls : fetchDone(l, "good")
    \/ \E l \in 1..MaxCalls : saveDone(l, "none")
    \/ \E id \in Ids : transitionToModel(id)
    \/ animationFrame(Duration)

ShowSpec == Init /\ [][ShowNext]_vars

TypeOK ==
    /\ now \in Nat
    /\ \A u \in Urls : resp[u] \in Bytes \cup {Null}
    /\ \A i \in Ids : loadedModels[i] \in 0..Len(loads)
    /\ Len(loads) <= Len(calls)

\* ------------------------------------------------------------------ claims
Finished(l) ==
    /\ loads[l].phase # "getModel"
    /\ loads[l].lpc = "done"
    /\ loads[l].ppc \in {"idle", "done"}

Has(log, status) == \E i \in DOMAIN log : log[i] = status

\* C1: a loadModel call made while a load of the same id has not settled
\* returns that in-flight promise and starts no cache lookup, request or
\* parse of its own; there is never more than one load of an id in flight,
\* so all racing callers hold the same promise and see the same object.
C1_InFlightDedup ==
    /\ \A c \in DOMAIN calls :
          calls[c].pending # 0 =>
             /\ calls[c].retPromise = calls[c].pending
             /\ calls[c].retObject = 0
             /\ calls[c].started = 0
    /\ \A i \in Ids : Cardinality(PendingOf(i)) <= 1
    /\ \A u \in Urls : lookups[u] =
          Cardinality({l \in DOMAIN loads : loads[l].url = u})

C1_Witness ==
    \E c \in DOMAIN calls :
       /\ calls[c].pending # 0
       /\ loads[calls[c].retPromise].promise = "resolved"

\* C2: two concurrent loadModel calls for one id on an empty cache cause
\* exactly one network request for the url in total.
C2_ExactlyOneFetch ==
    ( /\ Len(calls) = 2
      /\ Len(loads) = 1
      /\ calls[2].pending = 1
      /\ Finished(1)
      /\ loads[1].phase = "miss" )
    => requests[loads[1].url] = 1

\* C3: a loadModel call made after the load of its id was rejected starts a
\* new load attempt instead of returning the rejected promise.
C3_RetryAfterFailure ==
    \A c \in DOMAIN calls :
       calls[c].prior = "rejected" =>
          /\ calls[c].started = 1
          /\ calls[c].retPromise # 0
          /\ \A d \in 1..(c - 1) : calls[d].retPromise # calls[c].retPromise

Rank(status) ==
    CASE status = "checking_cache" -> 1
      [] status = "downloading" -> 2
      [] status = "parsing" -> 3
      [] status = "adding_to_scene" -> 4
      [] status = "model_ready" -> 5
      [] status = "caching" -> 6
      [] OTHER -> 0

\* C4: the statuses of a load that missed the cache and succeeded come in
\* the order checking_cache, downloading (repeated), parsing,
\* adding_to_scene, model_ready, caching; caching never precedes
\* model_ready.
C4_MissOrder ==
    \A l \in DOMAIN loads :
       ( /\ loads[l].cb
         /\ loads[l].phase = "miss"
         /\ loads[l].promise = "resolved"
         /\ ~Has(loads[l].log, "error") )
       => /\ \A i, j \in DOMAIN loads[l].log :
                i < j => /\ Rank(loads[l].log[i]) >= 1
                         /\ Rank(loads[l].log[i]) <= Rank(loads[l].log[j])
          /\ Finished(l) => \A r \in {1, 3, 4, 5, 6} :
                \E i \in DOMAIN loads[l].log : Rank(loads[l].log[i]) = r

HitSequence == <<"cache_hit", "parsing", "adding_to_scene", "model_ready">>

\* C5: a load that hits the cache and parses delivers exactly cache_hit,
\* parsing, adding_to_scene, model_ready, in that order; no load that hit
\* the cache ever delivers checking_cache, downloading or caching.
C5_HitSequence ==
    \A l \in DOMAIN loads :
       (loads[l].cb /\ loads[l].phase = "hit") =>
          /\ \A i \in DOMAIN loads[l].log :
                loads[l].log[i] \notin {"checking_cache", "downloading", "caching"}
          /\ (loads[l].lpc = "done" /\ loads[l].lfail = "none") =>
                /\ loads[l].log = HitSequence
                /\ loads[l].promise = "resolved"

C5_Witness ==
    \E l \in DOMAIN loads :
       /\ loads[l].cb
       /\ loads[l].phase = "hit"
       /\ loads[l].lpc = "done"
       /\ loads[l].promise = "resolved"

\* C6: when the download or the parse of a load fails, its promise is
\* rejected with the underlying error and onStateChange receives error.
C6_FailureReported ==
    \A l \in DOMAIN loads :
       (Finished(l) /\ loads[l].lfail # "none") =>
          /\ loads[l].promise = "rejected"
          /\ loads[l].value \in {"network", "parse", "fetch"}
          /\ loads[l].cb => Has(loads[l].log, "error")

\* C7: error is terminal: no status is delivered for a load after error.
C7_ErrorTerminal ==
    \A l \in DOMAIN loads :
       \A i \in DOMAIN loads[l].log :
          loads[l].log[i] = "error" => i = Len(loads[l].log)

\* C8: a failure of the caching part of a load whose download and parse
\* succeed neither rejects the promise nor produces an error status; stated
\* for the failure to obtain the bytes that are to be persisted.
C8_CacheFailureLocal ==
    \A l \in DOMAIN loads :
       ( /\ loads[l].cfail # "none"
         /\ loads[l].lpc = "done"
         /\ loads[l].lfail = "none" )
       => /\ loads[l].promise # "rejected"
          /\ ~Has(loads[l].log, "error")

FirstCall(id) == CHOOSE c \in DOMAIN calls :
    /\ calls[c].id = id
    /\ \A d \in DOMAIN calls : calls[d].id = id => c <= d

\* C9: a loadModel call for an id whose load is in flight gets the promise
\* of that load even when it names another url: the asset it resolves to is
\* built from the first call's url, and a url named only by such calls is
\* never looked up in the cache nor requested from the network.
C9_DedupById ==
    /\ \A c \in DOMAIN calls :
          calls[c].pending # 0 =>
             /\ calls[c].retPromise = calls[FirstCall(calls[c].id)].retPromise
             /\ loads[calls[c].retPromise].url = calls[FirstCall(calls[c].id)].url
             /\ loads[calls[c].retPromise].src \in
                   {Null, calls[FirstCall(calls[c].id)].url}
    /\ \A u \in Urls :
          (\A c \in DOMAIN calls : calls[c].url = u => calls[c].pending # 0)
          => lookups[u] = 0 /\ requests[u] = 0

C9_Witness ==
    \E c \in DOMAIN calls :
       /\ calls[c].pending # 0
       /\ calls[c].url # calls[FirstCall(calls[c].id)].url
       /\ loads[calls[c].retPromise].promise = "resolved"
       /\ loads[calls[c].retPromise].src = calls[FirstCall(calls[c].id)].url

\* C10: getModel returns the key-value entry's bytes, without consulting
\* the response store, when the entry exists and is younger than 7 days;
\* otherwise the response store's bytes, rewriting the key-value entry with
\* the current time, when the response store has the url; otherwise null.
\* (Calls in which no storage step throws.)
C10_GetModel ==
    (lastGet.url # Null /\ ~lastGet.threw) =>
       IF /\ lastGet.before # NoEntry
          /\ lastGet.at - lastGet.before.timestamp < 7 * DayLen
       THEN /\ lastGet.result = lastGet.before.data
            /\ ~lastGet.consulted
            /\ lastGet.after = lastGet.before
       ELSE IF lastGet.respBefore # Null
       THEN /\ lastGet.result = lastGet.respBefore
            /\ lastGet.after = [data |-> lastGet.respBefore, timestamp |-> lastGet.at]
       ELSE /\ lastGet.result = Null
            /\ lastGet.after = lastGet.before

C10_Witness ==
    /\ lastGet.url # Null
    /\ ~lastGet.threw
    /\ lastGet.before # NoEntry
    /\ lastGet.at - lastGet.before.timestamp >= 7 * DayLen
    /\ lastGet.respBefore # Null
    /\ lastGet.after.timestamp = lastGet.at

\* the same call 6 days 23 hours after the write: served from the key-value
\* store
C10_FreshWitness ==
    /\ lastGet.url # Null
    /\ lastGet.before # NoEntry
    /\ lastGet.at - lastGet.before.timestamp = 7 * DayLen - 1
    /\ lastGet.result = lastGet.before.data

\* C11: a clearExpiredModels call in which no storage step throws deletes
\* from the key-value store exactly the model entries older than 30 days;
\* model entries aged 30 days or less and every non-model key stay as they
\* were.
C11_SweepExact ==
    (hist.last.op = "sweep" /\ ~hist.last.threw) =>
       /\ \A u \in Urls :
             kv[u] = IF /\ hist.last.kvBefore[u] # NoEntry
                        /\ hist.last.at - hist.last.kvBefore[u].timestamp > 30 * DayLen
                     THEN NoEntry
                     ELSE hist.last.kvBefore[u]
       /\ other = hist.last.otherBefore

\* one sweep deletes an entry older than 30 days, keeps a younger one and
\* keeps the non-model entry, itself older than 30 days
C11_Witness ==
    /\ hist.last.op = "sweep"
    /\ ~hist.last.threw
    /\ \E u, v \in Urls :
          /\ hist.last.kvBefore[u] # NoEntry
          /\ hist.last.at - hist.last.kvBefore[u].timestamp > 30 * DayLen
          /\ kv[u] = NoEntry
          /\ hist.last.kvBefore[v] # NoEntry
          /\ hist.last.at - hist.last.kvBefore[v].timestamp <= 30 * DayLen
          /\ kv[v] = hist.last.kvBefore[v]
    /\ \E n \in OtherNames :
          /\ other[n] # NoEntry
          /\ hist.last.at - other[n].timestamp > 30 * DayLen

\* an entry exactly 30 days old survives the sweep
C11_BoundaryWitness ==
    /\ hist.last.op = "sweep"
    /\ ~hist.last.threw
    /\ \E u \in Urls :
          /\ hist.last.kvBefore[u] # NoEntry
          /\ hist.last.at - hist.last.kvBefore[u].timestamp = 30 * DayLen
          /\ kv[u] = hist.last.kvBefore[u]

\* C12: once a sweep has run 31 days or more after an entry was written,
\* the entry having been neither written nor read in between, getModel(url)
\* returns null.
C12_PurgedAfterSweep ==
    (lastGet.url # Null /\ lastGet.purged >= 31 * DayLen) => lastGet.result = Null

\* C13: as long as no storage step has failed, the key-value store holds an
\* entry for a url exactly when the response store holds one.
C13_StoresConsistent ==
    ~hist.failed => \A u \in Urls : (kv[u] # NoEntry) <=> (resp[u] # Null)

\* C14: whenever a storage step throws, getModel resolves to null and
\* saveModel and clearExpiredModels resolve; none of the three ever rejects.
C14_FailuresSwallowed ==
    /\ lastGet.url # Null =>
          /\ lastGet.settled = "resolved"
          /\ lastGet.threw => lastGet.result = Null
    /\ hist.last.op \in {"save", "sweep"} => hist.last.settled = "resolved"

\* getModel whose backfill of the key-value store throws after the response
\* store had the bytes
C14_Witness ==
    /\ lastGet.url # Null
    /\ lastGet.threw
    /\ lastGet.consulted
    /\ lastGet.respBefore # Null
    /\ lastGet.result = Null
    /\ lastGet.settled = "resolved"

\* saveModel whose response-store write throws after the key-value write
C14_SaveWitness ==
    /\ hist.last.op = "save"
    /\ hist.last.threw
    /\ kv # hist.last.kvBefore
    /\ hist.last.settled = "resolved"

\* clearExpiredModels whose second deletion throws after the first one
C14_SweepWitness ==
    /\ hist.last.op = "sweep"
    /\ hist.last.threw
    /\ kv # hist.last.kvBefore
    /\ hist.last.settled = "resolved"

\* C15: when a transition from the active asset A to asset B completes, A
\* is hidden, B is visible with mesh opacity 1, the active id is B and the
\* pointer controls are bound to B.
C15_TransitionCompletes ==
    (trans.cur.done /\ trans.cur.solo /\ trans.cur.prev # Null) =>
       /\ ~scene.visible[trans.cur.prev]
       /\ scene.visible[trans.cur.target]
       /\ scene.opacity[trans.cur.target] = Duration
       /\ scene.activeModelId = trans.cur.target
       /\ orbit.model = trans.cur.target

\* C16: after every frame of a transition from A to B with progress p, A
\* is visible exactly when p < 0.8 with mesh opacity 1 - p, and B is visible
\* exactly when p > 0.2 with mesh opacity p.
C16_FrameVisibility ==
    (trans.cur.frames > 0 /\ trans.cur.solo /\ trans.cur.prev # Null) =>
       /\ scene.visible[trans.cur.prev] <=> trans.cur.p * 10 < 8 * Duration
       /\ scene.opacity[trans.cur.prev] = Duration - trans.cur.p
       /\ scene.visible[trans.cur.target] <=> trans.cur.p * 10 > 2 * Duration
       /\ scene.opacity[trans.cur.target] = trans.cur.p

\* C17: a transitionToModel(targetId) call whose target is not a loaded
\* model, or is the active id, changes neither the active id, any visibility
\* or opacity, the camera, the controls binding nor the queued frame
\* callbacks.
C17_GuardNoOp ==
    [][(/\ trans'.n = trans.n + 1
        /\ \/ models[trans'.last.target] = 0
           \/ scene.activeModelId = trans'.last.target)
       => (scene' = scene /\ raf' = raf /\ orbit' = orbit /\ models' = models)]_vars

\* a call for the active id while its transition is still in flight
C17_Witness ==
    /\ trans.last.skipped
    /\ trans.last.target = scene.activeModelId
    /\ raf # <<>>
    /\ ~trans.cur.done

\* a call for an id that is not loaded
C17_NotLoadedWitness ==
    /\ trans.last.skipped
    /\ models[trans.last.target] = 0

\* C18: once a frame of a transition to B has run with progress above 0.5,
\* a camera animation toward B's initial pose has been started and the
\* clipping planes have been recomputed.
C18_CameraAtHalf ==
    trans.cur.half => (trans.cur.cams >= 1 /\ trans.cur.clips >= 1)

\* C19: after every rotation step, for any sequence of mouse and touch
\* events and vertical drags of any size and sign, the focused object's
\* rotation.x lies within [-pi/2, pi/2].
C19_PitchClamped ==
    \A i \in Ids : orbit.pose[i].rx >= 0 - 1570796 /\ orbit.pose[i].rx <= 1570796

\* a drag has been cut at the lower limit
C19_Witness ==
    /\ orbit.model # Null
    /\ orbit.isRotating
    /\ orbit.pose[orbit.model].rx = 0 - 1570796

\* a drag from the upper limit that stays inside the range
C19_InsideWitness ==
    /\ orbit.model # Null
    /\ orbit.isRotating
    /\ orbit.pose[orbit.model].rx = 1570796 - 500 * 5000

\* C20: isRotating and isPanning are never both true.
C20_OneGesture == ~(orbit.isRotating /\ orbit.isPanning)

\* what the controls have made of the containers
Rotation(o) == [i \in Ids |-> <<o.pose[i].rx, o.pose[i].ry>>]
Position(o) == [i \in Ids |-> <<o.pose[i].px, o.pose[i].py>>]
Scale(o) == [i \in Ids |-> o.pose[i].scale]

\* C21: while enableRotate is false no event puts the engine into rotating
\* or changes a rotation, while enablePan is false none puts it into panning
\* or changes a position, and while enableZoom is false none changes a
\* scale.  (A gesture already under way when its flag was cleared is left
\* out: the flags take effect on the next gesture.)
C21_FlagsGate ==
    [][/\ (~orbit.enableRotate /\ ~orbit.isRotating) =>
             (~orbit'.isRotating /\ Rotation(orbit') = Rotation(orbit))
       /\ (~orbit.enablePan /\ ~orbit.isPanning) =>
             (~orbit'.isPanning /\ Position(orbit') = Position(orbit))
       /\ ~orbit.enableZoom => Scale(orbit') = Scale(orbit)]_vars

\* the pan and zoom parts of C21, which hold
C21_PanZoomGate ==
    [][/\ (~orbit.enablePan /\ ~orbit.isPanning) =>
             (~orbit'.isPanning /\ Position(orbit') = Position(orbit))
       /\ ~orbit.enableZoom => Scale(orbit') = Scale(orbit)]_vars

\* C22: a mouseup, a mouseleave or a touchend that leaves no finger makes
\* the gesture state idle; a touchend that leaves one finger makes it
\* rotating, with panning cleared and the finger's position as the start,
\* and the one-finger touchmove that follows rotates the focused object by
\* the delta from that position.
C22_GestureEnd ==
    [][/\ orbit'.gest = "rest" => (~orbit'.isRotating /\ ~orbit'.isPanning)
       /\ orbit'.gest = "end1" =>
             /\ orbit'.isRotating
             /\ ~orbit'.isPanning
             /\ orbit'.start = orbit'.from
       /\ (orbit.gest = "end1" /\ orbit'.gest = "turn") =>
             LET was == orbit.pose[orbit.model]
                 is == orbit'.pose[orbit.model]
                 dx == orbit'.start[1] - orbit.from[1]
                 dy == orbit'.start[2] - orbit.from[2]
                 raw == was.rx + dy * 5000
             IN /\ is.ry = was.ry + dx * 5000
                /\ is.rx = IF raw > 1570796 THEN 1570796
                           ELSE IF raw < 0 - 1570796 THEN 0 - 1570796
                           ELSE raw]_vars

\* two fingers panned, one was lifted, and the move of the other one has
\* turned the object
C22_Witness ==
    /\ orbit.gest = "turn"
    /\ orbit.from # orbit.start
    /\ orbit.isRotating
    /\ ~orbit.isPanning
    /\ orbit.pose[orbit.model].rx # 0
    /\ orbit.pose[orbit.model].px # 0

\* idle after a button was released during a drag
C22_RestWitness ==
    /\ orbit.gest = "rest"
    /\ orbit.pose[orbit.model].rx # 0

\* the gesture state of the controls
Gesture(o) == <<o.isRotating, o.isPanning, o.start, o.previousTouchDistance>>

\* C23: after dispose() no listener of the controls is left on the element:
\* a later mouse or touch event changes neither the gesture state nor the
\* rotation, position or scale of the focused object.  (A step that calls
\* setModel again registers listeners anew and is left out.)
C23_DisposedIsDeaf ==
    [][(orbit.disposed /\ orbit'.listeners <= orbit.listeners) =>
          /\ orbit'.listeners = 0
          /\ Gesture(orbit') = Gesture(orbit)
          /\ orbit'.pose = orbit.pose]_vars

\* C24: however many transitions have completed, and so however many times
\* setModel was called, the element holds at most one listener per event
\* type.
C24_OneListener == Cardinality(Registered(orbit)) <= 1

\* C25: after every step of the controls the position of every container
\* has x and y in [-10, 10] and the z it had, and its scale lies in
\* [0.1, 10], whatever the size and sign of the pointer and pinch deltas
\* (positions in hundredths, scale in thousandths).
C25_PanZoomClamped ==
    [][\A i \in Ids :
          /\ orbit'.pose[i].px >= 0 - 1000 /\ orbit'.pose[i].px <= 1000
          /\ orbit'.pose[i].py >= 0 - 1000 /\ orbit'.pose[i].py <= 1000
          /\ orbit'.pose[i].pz = orbit.pose[i].pz
          /\ orbit'.pose[i].scale >= 100 /\ orbit'.pose[i].scale <= 10000]_vars

\* pan and pinch steps that were cut at a limit
C25_Witness ==
    /\ orbit.pose["m"].px = 0 - 1000
    /\ orbit.pose["m"].py = 1000
    /\ orbit.pose["m"].scale = 100

C25_UpperWitness ==
    /\ orbit.pose["m"].px = 1000
    /\ orbit.pose["m"].py = 0 - 1000
    /\ orbit.pose["m"].scale = 10000

\* pan and pinch steps that stayed inside the limits
C25_InsideWitness ==
    /\ orbit.pose["m"].py = 500
    /\ orbit.pose["m"].scale = 2000

\* C26: a call of adjustClippingPlanes leaves the camera as it is when no
\* model is active, or the active id has no radius other than zero, or no
\* model; otherwise, with d the camera's distance and r the radius, it
\* sets near = max(0.001, d - r - 0.1) and far = d + 10 r and recomputes
\* the projection if one of them is more than 0.001 away from the
\* camera's value, and leaves the camera as it is if not (lengths in
\* thousandths).
C26_ClippingPlanes ==
    [][scene'.cam.adjusted =>
          LET id == scene.activeModelId
              c == scene.cam
              r == IF id = Null THEN 0 ELSE c.radii[id]
              near == IF c.dist - r - 100 > 1 THEN c.dist - r - 100 ELSE 1
              far == c.dist + 10 * r
              moved == \/ c.near - near > 1 \/ near - c.near > 1
                       \/ c.far - far > 1 \/ far - c.far > 1
          IN IF id # Null /\ r > 0 /\ models[id] # 0 /\ moved
             THEN /\ scene'.cam.near = near
                  /\ scene'.cam.far = far
                  /\ scene'.cam.projected
                  /\ scene'.cam.dist = c.dist
             ELSE /\ scene'.cam.near = c.near
                  /\ scene'.cam.far = c.far
                  /\ ~scene'.cam.projected
                  /\ scene'.cam.dist = c.dist]_vars

\* the planes were written for a camera 1.0 away from a model of radius 0.5
C26_Witness ==
    /\ scene.cam.adjusted
    /\ scene.cam.projected
    /\ scene.cam.dist = 1000
    /\ scene.cam.near = 400
    /\ scene.cam.far = 6000

\* the camera moved by 0.001 and the planes were kept
C26_KeptWitness ==
    /\ scene.cam.adjusted
    /\ ~scene.cam.projected
    /\ scene.activeModelId # Null
    /\ scene.cam.dist = 1001
    /\ scene.cam.near = 400
    /\ scene.cam.far = 6000

\* near was held at 0.001 for a camera inside the sphere
C26_NearFloorWitness ==
    /\ scene.cam.adjusted
    /\ scene.cam.projected
    /\ scene.cam.near = 1
    /\ scene.cam.dist = 550

\* calls that returned early: no active model, and a radius of zero
C26_IdleWitness ==
    /\ scene.cam.adjusted
    /\ scene.activeModelId = Null
    /\ scene.cam.last # Null

C26_ZeroRadiusWitness ==
    /\ scene.cam.adjusted
    /\ scene.activeModelId # Null
    /\ scene.cam.radii[scene.activeModelId] = 0
    /\ scene.cam.dist = 3000

\* C27: the distance at which addModelToScene and handleResize place the
\* camera is max(distanceV, distanceH) times a margin above 1.0, so it is
\* never less than distanceV = radius / tan(fov / 2) or than
\* distanceH = radius / (tan(fov / 2) * aspect), tan(fov / 2) being 0.767.
C27_FramedDistance ==
    scene.cam.framed # Null =>
        LET r == scene.cam.radii[scene.cam.framed]
        IN /\ scene.cam.dist * 767 >= r * 1000
           /\ scene.cam.dist * 767 * (scene.cam.aspect \div 10) >= r * 100000

C28_IdleWitness ==
    /\ scene.par.last.on
    /\ scene.par.last.at = <<3, 40>>
    /\ scene.par.idActive # Null
    /\ scene.par.parallaxEffect = Null
    /\ scene.par.last.calls = 0

\* C29: setMaterial, setWireframe, updateModel and resetCameraForModel
\* called with an id that has no model throw nothing and change no model,
\* nor the camera, nor the controls.
C29_UnknownIdNoOp ==
    [][(scene'.edit.op # "" /\ models' = models /\ models[scene'.edit.id] = 0) =>
          /\ ~scene'.edit.threw
          /\ scene'.mat = scene.mat
          /\ scene'.visible = scene.visible
          /\ scene'.opacity = scene.opacity
          /\ scene'.camera = scene.camera
          /\ scene'.cam = scene.cam
          /\ scene'.activeModelId = scene.activeModelId
          /\ orbit' = orbit]_vars

\* the four operations were called for x, which has no model, after they
\* had changed m
C29_Witness ==
    /\ scene.edit.op = "setMaterial"
    /\ scene.edit.id = "x"
    /\ models["x"] = 0
    /\ models["m"] # 0
    /\ scene.mat["m"] = [material |-> "phong", wireframe |-> TRUE]
    /\ ~scene.visible["m"]

C29_ResetWitness ==
    /\ scene.edit.op = "resetCameraForModel"
    /\ scene.edit.id = "x"
    /\ models["x"] = 0
    /\ scene.camera.to = "m"

C29_WireframeWitness ==
    /\ scene.edit.op = "setWireframe"
    /\ models[scene.edit.id] = 0

C29_UpdateWitness ==
    /\ scene.edit.op = "updateModel"
    /\ models[scene.edit.id] = 0

\* a reset for a model that exists moves the camera back to it
C29_KnownWitness ==
    /\ scene.edit.op = "resetCameraForModel"
    /\ scene.edit.id = "m"
    /\ models["x"] # 0
    /\ scene.camera.to = "m"

\* C30: preloadModels starts a load only for an id that has no model and
\* no load in flight, and at most one for an id; when it returns every load
\* it started is still at its first await; and a preload that fails is
\* caught and logged: no load it started ends in a rejection that nobody
\* handles.
C30_PreloadIsQuiet ==
    [][/\ (scene'.pre.on /\ scene'.pre # scene.pre) =>
             LET new == (DOMAIN loads') \ (DOMAIN loads)
             IN /\ new = scene'.pre.started \ scene.pre.started
                /\ \A l \in new :
                      /\ models[loads'[l].id] = 0
                      /\ ~hasModelLoaded[loads'[l].id]
                      /\ PendingOf(loads'[l].id) = {}
                      /\ loads'[l].promise = "pending"
                      /\ loads'[l].phase = "getModel"
                      /\ \A k \in new : loads'[k].id = loads'[l].id => k = l
                /\ \A l \in DOMAIN loads : loads'[l] = loads[l]
                /\ models' = models
       /\ scene'.pre.unhandled = {}
       /\ \A l \in scene'.pre.started :
             (loads'[l].promise = "rejected"
                /\ l \in scene'.pre.hidden \cup scene'.pre.logged \cup scene'.pre.unhandled)
             => l \in scene'.pre.logged]_vars

\* a call that started one load and left an entry out
C30_Witness ==
    /\ scene.pre.on
    /\ Cardinality(scene.pre.started) = 1
    /\ scene.pre.skipped # {}

\* a preload failed and was logged
C30_LoggedWitness ==
    \E l \in scene.pre.logged : loads[l].promise = "rejected"

\* a preload succeeded and its model was hidden
C30_HiddenWitness ==
    \E l \in scene.pre.hidden : models[loads[l].id] # 0

\* an id that the host was loading was left out
C30_LoadingWitness ==
    /\ scene.pre.on
    /\ scene.pre.started = {}
    /\ \E i \in scene.pre.skipped : PendingOf(i) # {} /\ models[i] = 0

\* no animateTransition callback is queued
NoTransitionQueued == \A i \in DOMAIN raf : raf[i].kind # "transition"

\* C31: when a transition to C was started while one to B was in flight,
\* then once both have completed the active id is C, the controls are bound
\* to C, and of the assets involved only C is visible.
C31_LastWriterWins ==
    (~trans.cur.solo /\ trans.cur.done /\ NoTransitionQueued) =>
       /\ scene.activeModelId = trans.cur.target
       /\ orbit.model = trans.cur.target
       /\ \A i \in Ids \ {trans.cur.target} : ~scene.visible[i]

\* the part of C31 about the active id and the controls, which holds
C31_ActiveAndBound ==
    (~trans.cur.solo /\ trans.cur.done /\ NoTransitionQueued) =>
       /\ scene.activeModelId = trans.cur.target
       /\ orbit.model = trans.cur.target

\* C32: a load whose promise has rejected registers nothing: hasModel(id)
\* is false and the scene holds no object added by that load, however the
\* download and the fetch for the cache interleave.
C32_RejectedNotRegistered ==
    \A l \in DOMAIN loads :
       loads[l].promise = "rejected" =>
          /\ ~hasModelLoaded[loads[l].id]
          /\ models[loads[l].id] # l

\* the onStateChange of call c has been given model_ready or error
FinalStatus(c) ==
    /\ c \in DOMAIN calls
    /\ IF calls[c].started = 1
       THEN \/ Has(loads[calls[c].retPromise].log, "model_ready")
            \/ Has(loads[calls[c].retPromise].log, "error")
       ELSE calls[c].status \in {"model_ready", "error"}

\* C33: every loadModel call that passes an onStateChange has it invoked
\* with model_ready or error in the end, also when the call was answered
\* with the promise of a load in flight or of a finished load.
C33_FinalStatusDelivered ==
    \A c \in 1..MaxCalls :
       (c \in DOMAIN calls /\ calls[c].cb) ~> FinalStatus(c)

\* C34: a model that preloadModels has hidden and that transitionToModel
\* then activates is rendered once the transition has completed: its
\* container and the gltf scene under it both have visible = true.
C34_PreloadedIsShown ==
    (trans.cur.done /\ trans.cur.hid /\ NoTransitionQueued) =>
       /\ scene.visible[trans.cur.target]
       /\ ~Hidden(trans.cur.target)

\* the container of the activated model is visible
C34_ContainerShown ==
    (trans.cur.done /\ trans.cur.hid /\ NoTransitionQueued) =>
       scene.visible[trans.cur.target]

\* C35: the object the promise of a load of id resolves to is the object
\* SceneManager.getModel(id) returns after the load, the one transitions, clipping and
\* the pointer controls work on.
C35_ResolvedIsRegistered ==
    \A l \in DOMAIN loads :
       loads[l].promise = "resolved" => Awaited(l) = getSceneModel(loads[l].id)

\* the resolved object is the child of the registered one: both belong to
\* the same load
C35_ResolvedIsChild ==
    \A l \in DOMAIN loads :
       loads[l].promise = "resolved" =>
          /\ getSceneModel(loads[l].id).kind = "group"
          /\ getSceneModel(loads[l].id).load = Awaited(l).load

\* C36: while a model is active and no transition is in flight, the
\* completion of a load of another id leaves the camera where it is.
C36_LoadKeepsCamera ==
    [][(/\ scene.activeModelId # Null
        /\ raf = <<>>
        /\ \E i \in Ids \ {scene.activeModelId} : models[i] = 0 /\ models'[i] # 0)
       => scene'.camera = scene.camera]_vars

\* such a load leaves the active id, the controls and the visibility of
\* the active model as they are
C36_LoadKeepsActive ==
    [][(/\ scene.activeModelId # Null
        /\ raf = <<>>
        /\ \E i \in Ids \ {scene.activeModelId} : models[i] = 0 /\ models'[i] # 0)
       => /\ scene'.activeModelId = scene.activeModelId
          /\ orbit' = orbit
          /\ scene'.visible[scene.activeModelId] = scene.visible[scene.activeModelId]]_vars

\* C37: after SceneManager.dispose() no render closure of animate() runs
\* any more, and however often animate() is called at most one render loop
\* is running.
C37_LoopStops ==
    /\ ~scene.loop.late
    /\ scene.loop.queued <= 1

\* the first half alone: no render closure runs after dispose()
C37_NoFrameAfterDispose == ~scene.loop.late

\* the second half alone: at most one render loop is running
C37_OneLoop == scene.loop.queued <= 1

\* C38: a scroll event never throws; when the active id of the parallax
\* engine names no registered object the scroll handler does nothing.
C38_ScrollNeverThrows == ~scene.par.last.threw

\* C39: in every reachable state the active id is null or the id of a model
\* registered in the scene (SceneManager.getModel gives its container), for
\* which a bounding radius and an initial camera pose are stored.
C39_ActiveIsRegistered ==
    scene.activeModelId # Null =>
       /\ getSceneModel(scene.activeModelId) # Undefined
       /\ scene.cam.radii[scene.activeModelId] # NoRadius
       /\ scene.cam.initial[scene.activeModelId]

\* a transition call has made a model active while the other is not loaded
C39_Witness ==
    /\ scene.activeModelId # Null
    /\ trans.last.target = scene.activeModelId
    /\ ~trans.last.skipped
    /\ \E i \in Ids : models[i] = 0

\* a transition to an id that is not registered has been asked for and
\* skipped
C39_SkippedWitness ==
    /\ trans.last.skipped
    /\ models[trans.last.target] = 0

\* the active model is still registered after dispose()
C39_DisposedWitness ==
    /\ scene.activeModelId # Null
    /\ scene.loop.disposed

====
